---- MODULE Spec2Model ----
(***************************************************************************)
(* A model of MFWPH (multi-device task manager):                           *)
(*   - the persisted configuration (app/models/config/app_config.py),      *)
(*   - the download page's update registry (app/pages/download_page.py),   *)
(*   - the startup update orchestrator (app/utils/until.py) together with  *)
(*     the run/stop action of the device card and the basic-info panel,    *)
(*   - command-line parsing (app/app_initializer.py).                      *)
(* Each part has its own specification over the shared variables; the      *)
(* variables of the other parts stay unchanged.                            *)
(***************************************************************************)
EXTENDS Integers, Sequences, FiniteSets, Bags, TLC

VARIABLES
    \* ---- configuration (app_config.py)
    config,        \* the loaded AppConfig
    doc,           \* the JSON document of the configuration file
    arg,           \* the dictionary handed to the last add_or_update_* call
    uuid_count,    \* how many uuid4 values have been drawn so far
    op,            \* the operation executed last
    \* ---- download page (download_page.py)
    active_checkers,       \* names with a registered single-mode checker
    active_downloaders,    \* names with a registered downloader
    update_status_cache,   \* name -> cached status
    current_update_info,   \* name -> UpdateInfo of the update found last
    workers,               \* bag of the checker, downloader and installer runs in flight
    batch_checker_thread,  \* the batch checker started by "check all"
    check_all_btn,         \* whether the "check all" button is enabled
    resource,              \* resource name the last handler was called for
    \* ---- startup update orchestrator (until.py)
    startup_update_in_progress,  \* global_config.startup_update_in_progress
    startup_timer,               \* the single-shot timer of check_for_updates is pending
    update_checker_thread,       \* the batch checker of the orchestrator
    resources_with_updates,      \* UpdateInfo list of the updates found
    auto_update_downloaders,     \* names with a registered downloader
    auto_update_pending,         \* queue of UpdateInfo waiting for their auto-update
    current_auto_update,         \* the UpdateInfo being processed, or NoUpdate
    auto_workers,                \* bag of the downloader and installer runs in flight
    resource_configs,            \* global_config.resource_configs: names in scan order
    queued,                      \* history: names in the order they were queued
    started,                     \* history: names in the order their auto-update began
    \* ---- run/stop button of a device card and of a basic-info panel
    is_busy,             \* device_manager.is_busy() of the device
    run_btn,             \* widget -> whether its run/stop button is enabled
    scheduled,           \* asyncSlot tasks created and not yet run: [widget, slot]
    notice,              \* what the last handle_run_stop_action did
    widget,              \* the widget whose slot ran last
    task_manager_call,   \* the last call into the task manager
    \* ---- command line (app_initializer.py)
    argv,                \* the options given on the command line
    args,                \* the namespace parse_arguments returns
    cli_stage,           \* "start", "parsed" or "scheduled"
    delayed_start,       \* whether schedule_task_startup has scheduled the start of tasks
    \* ---- functions applied to an input (accessors, formatting, parsing)
    applied,             \* the function called last and its arguments
    returned,            \* what it returned
    device_tasks,        \* scheduled_task_manager.get_tasks_for_device(device_name)
    now,                 \* datetime.now(): the day it falls on
    window,              \* the main window: stage, size, position
    \* ---- settings page (settings_page.py)
    host,                \* platform.system() and platform.machine()
    settings_page,       \* buttons and threads of the application update section
    folder,              \* the directory _clean_directory is called for
    temp_dir,            \* the directory that holds the _MEI folders; sys.frozen
    \* ---- worker threads
    threads,             \* GitInstallerThread, LogExportWorker: stage; signals queued
    ui_effect,           \* the last call of an interface service: which, by which thread
    \* ---- main window navigation (main_window.py)
    shell,               \* current_page, current_device, current_button_id, content,
                         \* sidebar buttons, device_pages
    \* ---- rows and detail panel of the download page (download_page.py)
    panel,               \* rows, selection, action bar, cache, checkers, downloaders
    \* ---- one run of LogExportWorker (settings_page.py)
    export_run,          \* files, archive, deletions, events emitted
    \* ---- one run of BeginCombat (MaaWJDR agent)
    combat               \* position in run, the calls made so far, the result

cfgVars == <<config, doc, arg, uuid_count>>

dlVars == <<active_checkers, active_downloaders, update_status_cache,
            current_update_info, workers, batch_checker_thread,
            check_all_btn, resource>>

dlPage == <<active_checkers, active_downloaders, update_status_cache,
            current_update_info, workers, batch_checker_thread, check_all_btn>>

suVars == <<startup_update_in_progress, startup_timer, update_checker_thread,
            resources_with_updates, auto_update_downloaders, auto_update_pending,
            current_auto_update, auto_workers, resource_configs, queued, started>>

rsVars == <<is_busy, run_btn, scheduled, notice, widget, task_manager_call>>

cliVars == <<argv, args, cli_stage, delayed_start>>

appVars == <<applied, returned, device_tasks, now, window,
             host, settings_page, folder, temp_dir, threads, ui_effect,
             shell, panel, export_run, combat>>

pgVars == <<shell, panel, export_run, combat>>

vars == <<config, doc, arg, uuid_count, op,
          active_checkers, active_downloaders, update_status_cache,
          current_update_info, workers, batch_checker_thread,
          check_all_btn, resource,
          startup_update_in_progress, startup_timer, update_checker_thread,
          resources_with_updates, auto_update_downloaders, auto_update_pending,
          current_auto_update, auto_workers, resource_configs, queued, started,
          is_busy, run_btn, scheduled, notice, widget, task_manager_call,
          argv, args, cli_stage, delayed_start,
          applied, returned, device_tasks, now, window,
          host, settings_page, folder, temp_dir, threads, ui_effect,
          shell, panel, export_run, combat>>

(***************************************************************************)
(* Bounds of the model.                                                    *)
(***************************************************************************)
MaxTasks == 2      \* longest selected_tasks / task_order list of a document
MaxInstalls == 2   \* most installs of one resource the model lets run at once

(***************************************************************************)
(* Dictionaries: a Python dict is a function whose DOMAIN is the set of    *)
(* keys present.  An ordered mapping whose order matters (task_instances)  *)
(* is a sequence of [key, val] entries with pairwise distinct keys.        *)
(***************************************************************************)
EmptyDict == [k \in {} |-> ""]

Has(d, k) == k \in DOMAIN d

Get(d, k, default) == IF k \in DOMAIN d THEN d[k] ELSE default

Range(s) == {s[i] : i \in DOMAIN s}

KeysOf(entries) == [i \in 1..Len(entries) |-> entries[i].key]

KeySet(entries) == {entries[i].key : i \in 1..Len(entries)}

Lookup(entries, k) == (CHOOSE i \in 1..Len(entries) : entries[i].key = k)

SeqsUpTo(S, n) == UNION {[1..m -> S] : m \in 0..n}

\* Python dict equality ignores insertion order.
DictEq(e1, e2) == Range(e1) = Range(e2)

(***************************************************************************)
(* uuid.uuid4().hex: the n-th value drawn.  Values are fresh: pairwise     *)
(* distinct and distinct from every id a document carries.                 *)
(***************************************************************************)
UuidHex == <<"uuid-1", "uuid-2", "uuid-3", "uuid-4", "uuid-5", "uuid-6",
             "uuid-7", "uuid-8", "uuid-9", "uuid-10", "uuid-11", "uuid-12">>

Uuid(n) == UuidHex[n]

(***************************************************************************)
(* Secret encryption (Fernet under the key of _get_encryption_key, then    *)
(* urlsafe base64).  A token records the plaintext it encrypts, the key    *)
(* and the random IV; the empty string is the token EmptyToken.            *)
(***************************************************************************)
EncryptionKey == "default-key"

Ivs == {1, 2}

EmptyToken == [text |-> "", key |-> "", iv |-> 0]

Encrypt(plain, iv) ==
    IF plain = "" THEN EmptyToken
    ELSE [text |-> plain, key |-> EncryptionKey, iv |-> iv]

Decrypt(token) ==
    IF token = EmptyToken THEN ""
    ELSE IF token.key = EncryptionKey THEN token.text
    ELSE ""     \* f.decrypt raises; the exception is caught and "" returned

(***************************************************************************)
(* ResourceSettings.from_dict                                              *)
(***************************************************************************)
OptionConfigFromData(opt) == [option_name |-> opt.option_name, value |-> opt.value]

TaskInstanceFromData(inst_data) ==
    [task_name   |-> inst_data.task_name,
     enabled     |-> Get(inst_data, "enabled", TRUE),
     options     |-> [i \in 1..Len(Get(inst_data, "options", <<>>)) |->
                        OptionConfigFromData(inst_data.options[i])],
     instance_id |-> inst_data.instance_id]

\* the clean-up of lines 86-90 without its filter (a mutant of CleanTaskOrder)
CleanTaskOrderNoFilter(raw_task_order, instances) ==
    IF raw_task_order = <<>> THEN KeysOf(instances) ELSE raw_task_order

CleanTaskOrder(raw_task_order, instances) ==
    LET cleaned == SelectSeq(raw_task_order, LAMBDA id : id \in KeySet(instances))
    IN  IF cleaned = <<>> THEN KeysOf(instances) ELSE cleaned

ResourceSettingsFromDict(data) ==
    LET task_instances_data == Get(data, "task_instances", <<>>)
        instances == [i \in 1..Len(task_instances_data) |->
                        [key |-> task_instances_data[i].key,
                         val |-> TaskInstanceFromData(task_instances_data[i].val)]]
        raw_task_order == Get(data, "task_order", KeysOf(instances))
    IN  [name           |-> Get(data, "name", ""),
         resource_name  |-> Get(data, "resource_name", ""),
         task_instances |-> instances,
         task_order     |-> CleanTaskOrder(raw_task_order, instances)]

(***************************************************************************)
(* Dataclass construction from keyword arguments.                          *)
(***************************************************************************)
\* AppConfig._filter_kwargs_for_class: keep the keys that are declared fields.
FilterKwargs(fields, data) == [k \in (DOMAIN data) \cap fields |-> data[k]]

\* cls(**kwargs): every field takes its argument, or else its default.
Construct(defaults, kwargs) ==
    [k \in DOMAIN defaults |-> IF k \in DOMAIN kwargs THEN kwargs[k] ELSE defaults[k]]

None == "None"

AdbDeviceDefaults ==
    [name |-> "", adb_path |-> "", address |-> "", screencap_methods |-> 0,
     input_methods |-> 0, agent_path |-> None, notification_handler |-> None,
     config |-> EmptyDict]

Win32DeviceDefaults ==
    [hWnd |-> 0, screencap_method |-> 0, input_method |-> 0,
     notification_handler |-> None]

ResourceDefaults ==
    [resource_name |-> "", settings_name |-> "", resource_pack |-> "",
     enable |-> FALSE]

\* the fields of DeviceConfig that from_dict takes from device_data itself
DeviceConfigDefaults ==
    [device_name |-> "", start_command |-> "", auto_start_emulator |-> FALSE,
     auto_close_emulator |-> FALSE]

ScheduleTaskDefaults(fresh_id) ==
    [device_name |-> "", resource_name |-> "", enabled |-> FALSE,
     schedule_time |-> "", schedule_type |-> "daily", week_days |-> <<>>,
     settings_name |-> "", notify |-> FALSE, force_stop |-> FALSE,
     schedule_id |-> fresh_id]

(***************************************************************************)
(* AppConfig.from_dict                                                     *)
(***************************************************************************)
RECURSIVE SumSeq(_)
SumSeq(s) == IF s = <<>> THEN 0 ELSE Head(s) + SumSeq(Tail(s))

IsLegacy(config_version, settings_data) ==
    config_version < 2 /\ Has(settings_data, "selected_tasks")

\* one migrated TaskInstance, a mutant of which is created disabled
MigratedInstanceDisabled(instance_id, task_name, shared_options) ==
    [task_name |-> task_name, enabled |-> FALSE, options |-> shared_options,
     instance_id |-> instance_id]

MigratedInstance(instance_id, task_name, shared_options) ==
    [task_name |-> task_name, enabled |-> TRUE, options |-> shared_options,
     instance_id |-> instance_id]

\* the migration of one legacy entry; base uuid4 values were drawn before it
MigrateSettings(settings_data, base) ==
    LET options_data   == Get(settings_data, "options", <<>>)
        shared_options == [i \in 1..Len(options_data) |->
                             Construct([option_name |-> "", value |-> 0],
                                       FilterKwargs({"option_name", "value"},
                                                    options_data[i]))]
        selected_tasks == Get(settings_data, "selected_tasks", <<>>)
        migrated_instances ==
            [i \in 1..Len(selected_tasks) |->
                [key |-> Uuid(base + i),
                 val |-> MigratedInstance(Uuid(base + i), selected_tasks[i],
                                          shared_options)]]
        migrated_order == [i \in 1..Len(selected_tasks) |-> Uuid(base + i)]
    IN  [name           |-> Get(settings_data, "name", ""),
         resource_name  |-> Get(settings_data, "resource_name", ""),
         task_instances |-> migrated_instances,
         task_order     |-> migrated_order]

\* uuid4 values one resource-settings entry draws
SettingsUuids(config_version, settings_data) ==
    IF IsLegacy(config_version, settings_data)
    THEN Len(Get(settings_data, "selected_tasks", <<>>)) ELSE 0

\* uuid4 values one schedule-task entry draws (the default of schedule_id)
ScheduleUuids(task_data) == IF Has(task_data, "schedule_id") THEN 0 ELSE 1

DocVersion(data) == Get(data, "config_version", 1)

SettingsNeeds(data) ==
    [i \in 1..Len(Get(data, "resource_settings", <<>>)) |->
        SettingsUuids(DocVersion(data), data.resource_settings[i])]

ScheduleNeeds(data) ==
    [i \in 1..Len(Get(data, "schedule_tasks", <<>>)) |->
        ScheduleUuids(data.schedule_tasks[i])]

\* uuid4 values a whole from_dict call draws
UuidsDrawn(data) == SumSeq(SettingsNeeds(data)) + SumSeq(ScheduleNeeds(data))

\* DeviceType(value), DeviceType.ADB on a ValueError; and member.value
DeviceTypeOf(value) == IF value = "win32" THEN "WIN32" ELSE "ADB"

DeviceTypeValue(member) == IF member = "WIN32" THEN "win32" ELSE "adb"

DeviceFromData(device_data) ==
    LET device_type_str == Get(device_data, "device_type", "adb")
        device_type == DeviceTypeOf(device_type_str)
        controller_config ==
            IF device_type = "ADB"
            THEN Construct(AdbDeviceDefaults,
                     FilterKwargs(DOMAIN AdbDeviceDefaults,
                         IF Has(device_data, "controller_config")
                         THEN device_data.controller_config
                         ELSE Get(device_data, "adb_config", EmptyDict)))
            ELSE Construct(Win32DeviceDefaults,
                     FilterKwargs(DOMAIN Win32DeviceDefaults,
                         Get(device_data, "controller_config", EmptyDict)))
        resources_data == Get(device_data, "resources", <<>>)
        resources == [i \in 1..Len(resources_data) |->
                        Construct(ResourceDefaults,
                            FilterKwargs(DOMAIN ResourceDefaults, resources_data[i]))]
        own == Construct(DeviceConfigDefaults,
                   FilterKwargs(DOMAIN DeviceConfigDefaults, device_data))
    IN  [device_name         |-> own.device_name,
         device_type         |-> device_type,
         controller_config   |-> controller_config,
         resources           |-> resources,
         start_command       |-> own.start_command,
         auto_start_emulator |-> own.auto_start_emulator,
         auto_close_emulator |-> own.auto_close_emulator]

\* one entry of resource_update_methods: a legacy string value is the
\* dictionary [str |-> value]; a value of any other type is dropped.
IsStrValue(value) == Has(value, "str")

UpdateMethodsFromData(raw_update_methods) ==
    LET kept == {n \in DOMAIN raw_update_methods :
                    ~Has(raw_update_methods[n], "other")}
    IN  [n \in kept |->
            IF IsStrValue(raw_update_methods[n])
            THEN [method |-> raw_update_methods[n].str, channel |-> "stable",
                  auto_download_update |-> FALSE]
            ELSE [method |-> Get(raw_update_methods[n], "method", ""),
                  channel |-> Get(raw_update_methods[n], "channel", "stable"),
                  auto_download_update |->
                      Get(raw_update_methods[n], "auto_download_update", FALSE)]]

SecretFromData(data, encrypted_key, plain_key) ==
    IF Get(data, encrypted_key, EmptyToken) # EmptyToken
    THEN Decrypt(data[encrypted_key])
    ELSE Get(data, plain_key, "")

\* AppConfig.from_dict(data), base uuid4 values having been drawn before
AppConfigFromDict(data, base) ==
    LET config_version == DocVersion(data)
        resource_settings_data == Get(data, "resource_settings", <<>>)
        needs == SettingsNeeds(data)
        resource_settings ==
            [i \in 1..Len(resource_settings_data) |->
                IF IsLegacy(config_version, resource_settings_data[i])
                THEN MigrateSettings(resource_settings_data[i],
                                     base + SumSeq(SubSeq(needs, 1, i - 1)))
                ELSE ResourceSettingsFromDict(resource_settings_data[i])]
        devices_data == Get(data, "devices", <<>>)
        schedule_tasks_data == Get(data, "schedule_tasks", <<>>)
        sbase == base + SumSeq(needs)
        sneeds == ScheduleNeeds(data)
        schedule_tasks ==
            [i \in 1..Len(schedule_tasks_data) |->
                Construct(ScheduleTaskDefaults(
                              IF Has(schedule_tasks_data[i], "schedule_id") THEN ""
                              ELSE Uuid(sbase + SumSeq(SubSeq(sneeds, 1, i)))),
                          FilterKwargs(DOMAIN ScheduleTaskDefaults(""),
                                       schedule_tasks_data[i]))]
    IN  [config_version   |-> 2,
         devices          |-> [i \in 1..Len(devices_data) |->
                                  DeviceFromData(devices_data[i])],
         resource_settings |-> resource_settings,
         schedule_tasks   |-> schedule_tasks,
         CDK              |-> SecretFromData(data, "encrypted_cdk", "CDK"),
         github_token     |-> SecretFromData(data, "encrypted_github_token",
                                             "github_token"),
         resource_update_methods |->
             UpdateMethodsFromData(Get(data, "resource_update_methods", EmptyDict)),
         update_method        |-> Get(data, "update_method", "github"),
         receive_beta_update  |-> Get(data, "receive_beta_update", FALSE),
         auto_check_update    |-> Get(data, "auto_check_update", FALSE),
         window_size          |-> Get(data, "window_size", "800x600"),
         window_position      |-> Get(data, "window_position", "center"),
         debug_model          |-> Get(data, "debug_model", FALSE),
         minimize_to_tray_on_close |-> Get(data, "minimize_to_tray_on_close", FALSE),
         emulator_start_wait_time  |-> Get(data, "emulator_start_wait_time", 30)]

(***************************************************************************)
(* AppConfig.to_dict and its helpers                                       *)
(***************************************************************************)
DeviceConfigToDict(device) ==
    [device_name         |-> device.device_name,
     device_type         |-> DeviceTypeValue(device.device_type),
     controller_config   |-> device.controller_config,
     resources           |-> [i \in 1..Len(device.resources) |->
                                 [resource_name |-> device.resources[i].resource_name,
                                  settings_name |-> device.resources[i].settings_name,
                                  resource_pack |-> device.resources[i].resource_pack,
                                  enable        |-> device.resources[i].enable]],
     start_command       |-> device.start_command,
     auto_start_emulator |-> device.auto_start_emulator,
     auto_close_emulator |-> device.auto_close_emulator]

TaskInstanceToDict(instance) ==
    [task_name   |-> instance.task_name,
     enabled     |-> instance.enabled,
     options     |-> [i \in 1..Len(instance.options) |->
                         [option_name |-> instance.options[i].option_name,
                          value       |-> instance.options[i].value]],
     instance_id |-> instance.instance_id]

ResourceSettingsToDict(settings) ==
    [name           |-> settings.name,
     resource_name  |-> settings.resource_name,
     task_instances |-> [i \in 1..Len(settings.task_instances) |->
                            [key |-> settings.task_instances[i].key,
                             val |-> TaskInstanceToDict(settings.task_instances[i].val)]],
     task_order     |-> settings.task_order]

ScheduleTaskToDict(schedule) ==
    [device_name   |-> schedule.device_name,
     resource_name |-> schedule.resource_name,
     enabled       |-> schedule.enabled,
     schedule_time |-> schedule.schedule_time,
     schedule_type |-> schedule.schedule_type,
     settings_name |-> schedule.settings_name,
     notify        |-> schedule.notify,
     force_stop    |-> schedule.force_stop]
    @@ (IF schedule.week_days # <<>>
        THEN ("week_days" :> schedule.week_days) ELSE EmptyDict)
    @@ (IF schedule.schedule_id # ""
        THEN ("schedule_id" :> schedule.schedule_id) ELSE EmptyDict)

\* a mutant of SecretEntries that writes the CDK in plaintext
SecretEntriesPlain(c, iv_cdk, iv_token) ==
    (IF c.CDK # "" THEN ("CDK" :> c.CDK) ELSE EmptyDict)
    @@ (IF c.github_token # ""
        THEN ("encrypted_github_token" :> Encrypt(c.github_token, iv_token))
        ELSE EmptyDict)

\* lines 502-503: the secrets, encrypted, and only when not empty
SecretEntries(c, iv_cdk, iv_token) ==
    (IF c.CDK # "" THEN ("encrypted_cdk" :> Encrypt(c.CDK, iv_cdk)) ELSE EmptyDict)
    @@ (IF c.github_token # ""
        THEN ("encrypted_github_token" :> Encrypt(c.github_token, iv_token))
        ELSE EmptyDict)

ToDict(c, iv_cdk, iv_token) ==
    ("config_version" :> c.config_version)
    @@ SecretEntries(c, iv_cdk, iv_token)
    @@ ("resource_update_methods" :>
            [n \in DOMAIN c.resource_update_methods |->
                [method  |-> c.resource_update_methods[n].method,
                 channel |-> c.resource_update_methods[n].channel,
                 auto_download_update |->
                     c.resource_update_methods[n].auto_download_update]])
    @@ (IF c.update_method # "" THEN ("update_method" :> c.update_method)
        ELSE EmptyDict)
    @@ [receive_beta_update |-> c.receive_beta_update,
        auto_check_update   |-> c.auto_check_update,
        devices             |-> [i \in 1..Len(c.devices) |->
                                    DeviceConfigToDict(c.devices[i])],
        resource_settings   |-> [i \in 1..Len(c.resource_settings) |->
                                    ResourceSettingsToDict(c.resource_settings[i])],
        schedule_tasks      |-> [i \in 1..Len(c.schedule_tasks) |->
                                    ScheduleTaskToDict(c.schedule_tasks[i])],
        window_size         |-> c.window_size,
        window_position     |-> c.window_position,
        debug_model         |-> c.debug_model,
        minimize_to_tray_on_close |-> c.minimize_to_tray_on_close,
        emulator_start_wait_time  |-> c.emulator_start_wait_time]

(***************************************************************************)
(* AppConfig.add_or_update_resource_setting                                *)
(***************************************************************************)
UpsertResourceSetting(c, setting_data) ==
    LET new_setting == ResourceSettingsFromDict(setting_data)
        matches == {i \in 1..Len(c.resource_settings) :
                       /\ c.resource_settings[i].resource_name = new_setting.resource_name
                       /\ c.resource_settings[i].name = new_setting.name}
    IN  IF new_setting.resource_name = "" \/ new_setting.name = "" THEN c
        ELSE IF matches # {}
        THEN [c EXCEPT !.resource_settings[CHOOSE i \in matches :
                                              \A j \in matches : i <= j] = new_setting]
        ELSE [c EXCEPT !.resource_settings = Append(@, new_setting)]

(***************************************************************************)
(* The documents a configuration file may hold, and the dictionaries the   *)
(* interface hands to add_or_update_resource_setting.                      *)
(***************************************************************************)
TaskNames == {"a", "b"}

OptionX == [option_name |-> "x", value |-> 1]

OptionLists == {<<>>, <<OptionX>>}

InstanceData(id) ==
    IF id = "i1"
    THEN [task_name |-> "a", enabled |-> TRUE, options |-> <<OptionX>>,
          instance_id |-> id]
    ELSE [task_name |-> "b", enabled |-> FALSE, options |-> <<>>,
          instance_id |-> id]

Entry(id) == [key |-> id, val |-> InstanceData(id)]

InstanceLists == {<<>>, <<Entry("i1")>>, <<Entry("i1"), Entry("i2")>>,
                  <<Entry("i2"), Entry("i1")>>}

OrderIds == {"i1", "i2", "zz"}      \* "zz" is the key of no instance

NewSettings ==
    {[name |-> "s1", resource_name |-> "r1",
      task_instances |-> <<Entry("i1"), Entry("i2")>>, task_order |-> o] :
        o \in SeqsUpTo(OrderIds, MaxTasks)}
    \cup {[name |-> "s1", resource_name |-> "r1", task_instances |-> l,
            task_order |-> o] :
        l \in InstanceLists, o \in {<<>>, <<"zz">>, <<"i1">>}}
    \cup {[name |-> "s1", resource_name |-> "r1", task_instances |-> l] :
        l \in InstanceLists}

LegacySettings ==
    {[name |-> "old", resource_name |-> "r1", selected_tasks |-> t,
      options |-> <<OptionX>>] : t \in SeqsUpTo(TaskNames, MaxTasks)}
    \cup {[name |-> "old", resource_name |-> "r1", selected_tasks |-> <<"a", "b">>,
            options |-> <<>>],
           [name |-> "old", resource_name |-> "r1", selected_tasks |-> <<"b">>]}

VersionEntries == {EmptyDict, "config_version" :> 1, "config_version" :> 2}

SettingsDocs ==
    {v @@ ("resource_settings" :> rs) :
        v \in VersionEntries,
        rs \in {<<>>} \cup {<<s>> : s \in LegacySettings \cup NewSettings}
               \cup {<<[name |-> "old", resource_name |-> "r1",
                         selected_tasks |-> <<"a">>, options |-> <<OptionX>>],
                        [name |-> "s1", resource_name |-> "r1",
                         task_instances |-> <<Entry("i1")>>,
                         task_order |-> <<"zz">>],
                        [name |-> "old2", resource_name |-> "r1",
                         selected_tasks |-> <<"b">>]>>}}

ValidToken(plain) == [text |-> plain, key |-> EncryptionKey, iv |-> 1]

SecretEntriesOfDocs ==
    {EmptyDict,
     [encrypted_cdk |-> ValidToken("cdk-1"),
      encrypted_github_token |-> ValidToken("ghp-1"), receive_beta_update |-> TRUE,
      auto_check_update |-> TRUE, debug_model |-> TRUE,
      minimize_to_tray_on_close |-> TRUE, emulator_start_wait_time |-> 60,
      window_size |-> "1024x768", window_position |-> "100,50"],
     [encrypted_cdk |-> [text |-> "cdk-1", key |-> "other-key", iv |-> 1],
      encrypted_github_token |-> EmptyToken, github_token |-> "ghp-1"],
     [CDK |-> "cdk-1", github_token |-> ""]}

UpdateMethodEntries ==
    {EmptyDict, "update_method" :> "", "update_method" :> "github",
     "update_method" :> "MirrorChyan"}

ScheduleData ==
    [device_name |-> "d1", resource_name |-> "r1", enabled |-> TRUE,
     schedule_time |-> "08:00:00", schedule_type |-> "daily",
     settings_name |-> "s1", notify |-> FALSE, force_stop |-> FALSE]

ScheduleEntries ==
    {EmptyDict,
     "schedule_tasks" :> <<ScheduleData @@ ("schedule_id" :> "sch-1")>>,
     "schedule_tasks" :> <<ScheduleData>>,
     "schedule_tasks" :> <<ScheduleData @@ ("schedule_id" :> "")>>,
     "schedule_tasks" :> <<[device_name |-> "d1", resource_name |-> "r1",
                            schedule_type |-> "weekly", week_days |-> <<"Mon">>,
                            schedule_id |-> "sch-2", position |-> 3]>>}

AdbData ==
    [name |-> "emu", adb_path |-> "adb", address |-> "127.0.0.1:5555",
     screencap_methods |-> 1, input_methods |-> 1]

DeviceEntries ==
    {EmptyDict,
     [devices |-> <<[device_name |-> "d1", device_type |-> "adb",
                     controller_config |-> AdbData,
                     resources |-> <<[resource_name |-> "r1", settings_name |-> "s1",
                                      enable |-> TRUE]>>,
                     auto_start_emulator |-> TRUE]>>,
      resource_update_methods |-> [r1 |-> [str |-> "MirrorChyan"]]],
     [devices |-> <<[device_name |-> "w1", device_type |-> "win32",
                     controller_config |-> [hWnd |-> 7, screencap_method |-> 1,
                                            input_method |-> 1]]>>,
      resource_update_methods |->
          [r1 |-> [method |-> "github", channel |-> "beta",
                   auto_download_update |-> TRUE],
           r2 |-> [other |-> 0]]],
     [devices |-> <<[device_name |-> "d2", device_type |-> "usb",
                     adb_config |-> AdbData, start_command |-> "emu.exe"]>>,
      resource_update_methods |-> [r1 |-> [method |-> "MirrorChyan"]]]}

GlobalDocs ==
    {("config_version" :> 2) @@ s @@ u :
        s \in SecretEntriesOfDocs, u \in UpdateMethodEntries}
    \cup {("config_version" :> 2) @@ t @@ d :
        t \in ScheduleEntries, d \in DeviceEntries}

Documents == SettingsDocs \cup GlobalDocs

SettingInputs ==
    {[name |-> "s1", resource_name |-> "r1",
      task_instances |-> <<Entry("i1"), Entry("i2")>>, task_order |-> o] :
        o \in SeqsUpTo({"i2", "zz"}, MaxTasks)}
    \cup {[name |-> "s2", resource_name |-> "r1",
           task_instances |-> <<Entry("i2")>>],
          [name |-> "", resource_name |-> "r1",
           task_instances |-> <<Entry("i1")>>, task_order |-> <<"i1">>]}

Secrets == {"", "cdk-1"}

(***************************************************************************)
(* The configuration: state and operations.                                *)
(***************************************************************************)
\* AppConfig(): the dataclass defaults
(***************************************************************************)
(* Download page.  UpdateChecker, UpdateDownloader and                     *)
(* UpdateInstallerFactory run off the interface thread and report through  *)
(* queued signals; every action below is one slot run on the interface     *)
(* thread.  A run in flight is an element of the bag workers.              *)
(***************************************************************************)
Catalog == <<"r1">>            \* global_config.get_all_resource_configs()

Names == Range(Catalog)

GitCheckouts == {"r1"}         \* resources whose directory is a git checkout

Sources == {"github", "mirror"}

\* texts of the source and channel combo boxes (CHANNEL_MAP)
SourceTexts == {"Mirror", "GitHub"}

CHANNEL_MAP == [Stable |-> "stable", Beta |-> "beta"]

Worker(kind, name, stage, force) ==
    [kind |-> kind, name |-> name, stage |-> stage, force |-> force]

Stages == {"running", "reported", "cancelled"}

\* number of runs of one kind in flight for one resource name
InFlight(w, kind, name) ==
    LET n(stage, force) == CopiesIn(Worker(kind, name, stage, force), w)
    IN  n("running", FALSE) + n("running", TRUE) + n("reported", FALSE)
        + n("reported", TRUE) + n("cancelled", FALSE) + n("cancelled", TRUE)

Start(w, worker) == w (+) SetToBag({worker})

Stop(w, worker) == w (-) SetToBag({worker})

Pop(d, k) == [n \in DOMAIN d \ {k} |-> d[n]]

Put(d, k, v) == [n \in DOMAIN d \cup {k} |-> IF n = k THEN v ELSE d[n]]

NoBatch == [stage |-> "none", remaining |-> <<>>, found |-> 0]

\* the registries of the page, as one record the handlers transform
Page ==
    [active_checkers |-> active_checkers,
     active_downloaders |-> active_downloaders,
     update_status_cache |-> update_status_cache,
     current_update_info |-> current_update_info,
     workers |-> workers]

SetPage(p) ==
    /\ active_checkers' = p.active_checkers
    /\ active_downloaders' = p.active_downloaders
    /\ update_status_cache' = p.update_status_cache
    /\ current_update_info' = p.current_update_info
    /\ workers' = p.workers

InstallsBounded(p) ==
    \A name \in Names : InFlight(p.workers, "install", name) <= MaxInstalls

\* DownloadPage._check_resource_update, unguarded
CheckResourceUpdateAlways(p, name, force) ==
    [p EXCEPT !.update_status_cache = Put(@, name, "checking"),
              !.workers = Start(@, Worker("check", name, "running", force)),
              !.active_checkers = @ \cup {name}]

\* DownloadPage._check_resource_update
CheckResourceUpdate(p, name, force) ==
    IF name \in p.active_checkers
    THEN p
    ELSE [p EXCEPT !.update_status_cache = Put(@, name, "checking"),
                   !.workers = Start(@, Worker("check", name, "running", force)),
                   !.active_checkers = @ \cup {name}]

\* UpdateInstallerFactory.install_update: an install of the resource begins
InstallUpdate(p, name) ==
    [p EXCEPT !.workers = Start(@, Worker("install", name, "running", FALSE))]

IsGitRepo(update_info, name) ==
    update_info.source = "github" /\ name \in GitCheckouts

\* DownloadPage._start_update
StartUpdate(p, name) ==
    IF ~Has(p.current_update_info, name)
    THEN p
    ELSE IF IsGitRepo(p.current_update_info[name], name)
    THEN InstallUpdate(p, name)
    ELSE IF name \in p.active_downloaders
    THEN p
    ELSE [p EXCEPT !.workers = Start(@, Worker("download", name, "running", FALSE)),
                   !.active_downloaders = @ \cup {name}]

\* get_resource_update_method that never looks at the entry of the resource
GetResourceUpdateMethodGlobal(c, name) == c.update_method

\* AppConfig.get_resource_update_method
GetResourceUpdateMethod(c, name) ==
    IF Has(c.resource_update_methods, name)
    THEN c.resource_update_methods[name].method
    ELSE c.update_method

\* AppConfig.get_resource_update_channel
GetResourceUpdateChannel(c, name) ==
    IF Has(c.resource_update_methods, name)
    THEN c.resource_update_methods[name].channel
    ELSE IF c.receive_beta_update THEN "beta" ELSE "stable"

\* AppConfig.get_resource_auto_download
GetResourceAutoDownload(c, name) ==
    IF Has(c.resource_update_methods, name)
    THEN c.resource_update_methods[name].auto_download_update
    ELSE FALSE

\* DownloadPage._handle_update_found
UpdateFound(p, update_info) ==
    LET name == update_info.resource_name
        q == [p EXCEPT !.current_update_info = Put(@, name, update_info),
                       !.update_status_cache = Put(@, name, "available")]
    IN  IF GetResourceAutoDownload(config, name) /\ name \in Names
        THEN StartUpdate(q, name)
        ELSE q

UpdateInfo(name, source) == [resource_name |-> name, source |-> source]

DownloadPageConstructed ==
    /\ active_checkers = {}
    /\ active_downloaders = {}
    /\ update_status_cache = EmptyDict
    /\ current_update_info = EmptyDict
    /\ workers = EmptyBag
    /\ batch_checker_thread = NoBatch
    /\ check_all_btn = TRUE
    /\ resource = ""

(***************************************************************************)
(* Startup update orchestrator (StartupResourceUpdateChecker).  It has its *)
(* own installer and its own worker threads; queued signals of its workers *)
(* run its handlers on the interface thread, one at a time.                *)
(***************************************************************************)
MainProgram == "MFWPH main"    \* name of the application's own update record

NoUpdate == UpdateInfo("", "") \* current_auto_update is None

NamesOf(update_infos) ==
    [i \in 1..Len(update_infos) |-> update_infos[i].resource_name]

\* the registries of the orchestrator, as one record the handlers transform
Orchestrator ==
    [flag |-> startup_update_in_progress,
     pending |-> auto_update_pending,
     current |-> current_auto_update,
     downloaders |-> auto_update_downloaders,
     workers |-> auto_workers,
     started |-> started]

SetOrchestrator(s) ==
    /\ startup_update_in_progress' = s.flag
    /\ auto_update_pending' = s.pending
    /\ current_auto_update' = s.current
    /\ auto_update_downloaders' = s.downloaders
    /\ auto_workers' = s.workers
    /\ started' = s.started

\* _set_startup_updating(False), whatever the queue holds
ClearFlag(s) == [s EXCEPT !.flag = FALSE]

\* if not self.auto_update_pending and not self.current_auto_update:
\*     _set_startup_updating(False)
ClearFlagIfIdle(s) ==
    IF s.pending = <<>> /\ s.current = NoUpdate
    THEN [s EXCEPT !.flag = FALSE]
    ELSE s

\* taking the newest entry of the queue instead of the oldest
PopLast(pending) ==
    [item |-> pending[Len(pending)], rest |-> SubSeq(pending, 1, Len(pending) - 1)]

\* self.auto_update_pending.pop(0)
PopFirst(pending) ==
    [item |-> Head(pending), rest |-> Tail(pending)]

RECURSIVE StartNextAutoUpdate(_, _)

RECURSIVE StartAutoUpdate(_, _, _)

\* StartupResourceUpdateChecker._start_next_auto_update
StartNextAutoUpdate(s, catalog) ==
    IF s.current # NoUpdate
    THEN s
    ELSE IF s.pending = <<>>
    THEN [s EXCEPT !.flag = FALSE]
    ELSE LET popped == PopFirst(s.pending)
         IN  StartAutoUpdate([s EXCEPT !.pending = popped.rest,
                                       !.current = popped.item,
                                       !.started = Append(@, popped.item.resource_name)],
                             popped.item, catalog)

\* StartupResourceUpdateChecker._start_auto_update
StartAutoUpdate(s, update_info, catalog) ==
    LET name == update_info.resource_name
        present == name \in Range(catalog)
    IN  IF ~present /\ name # MainProgram
        THEN ClearFlagIfIdle(
                 IF s.current # NoUpdate /\ s.current.resource_name = name
                 THEN StartNextAutoUpdate([s EXCEPT !.current = NoUpdate], catalog)
                 ELSE s)
        ELSE IF name \in s.downloaders
        THEN s
        ELSE IF present /\ IsGitRepo(update_info, name)
        THEN [s EXCEPT !.workers =
                  Start(@, Worker("install", name, "running", FALSE))]
        ELSE [s EXCEPT !.workers =
                  Start(@, Worker("download", name, "running", FALSE)),
                       !.downloaders = @ \cup {name}]

\* the queue is advanced after the current item has reported:
\*   if self.current_auto_update and
\*      self.current_auto_update.resource_name == resource_name: ...
\*   if not self.auto_update_pending and not self.current_auto_update: ...
AdvanceQueue(s, resource_name, catalog) ==
    ClearFlagIfIdle(
        IF s.current # NoUpdate /\ s.current.resource_name = resource_name
        THEN StartNextAutoUpdate([s EXCEPT !.current = NoUpdate], catalog)
        ELSE s)

NoChecker == [stage |-> "none", remaining |-> <<>>, found |-> 0]

\* StartupResourceUpdateChecker.__init__
OrchestratorConstructed ==
    /\ startup_update_in_progress = FALSE
    /\ startup_timer = TRUE
    /\ update_checker_thread = NoChecker
    /\ resources_with_updates = <<>>
    /\ auto_update_downloaders = {}
    /\ auto_update_pending = <<>>
    /\ current_auto_update = NoUpdate
    /\ auto_workers = EmptyBag
    /\ queued = <<>>
    /\ started = <<>>

(***************************************************************************)
(* Run/stop button.  handle_run_stop_action, run_device_tasks and          *)
(* stop_device_tasks are asyncSlot coroutines: calling one creates a task  *)
(* that the event loop runs later.                                         *)
(***************************************************************************)
Widgets == {"DeviceCard", "BasicInfoWidget"}

\* the branch handle_run_stop_action takes, the startup flag being ignored
RunStopDecisionUnblocked(device_config, startup_updating, busy) ==
    IF ~device_config THEN "return"
    ELSE IF busy THEN "stop_device_tasks"
    ELSE "run_device_tasks"

\* the branch handle_run_stop_action takes
RunStopDecision(device_config, startup_updating, busy) ==
    IF ~device_config THEN "return"
    ELSE IF startup_updating THEN "show_warning"
    ELSE IF busy THEN "stop_device_tasks"
    ELSE "run_device_tasks"

Scheduled(w, slot) == [widget |-> w, slot |-> slot]

WidgetsConstructed ==
    /\ is_busy = FALSE
    /\ run_btn = [w \in Widgets |-> TRUE]
    /\ scheduled = {}
    /\ notice = ""
    /\ widget = ""
    /\ task_manager_call = ""

(***************************************************************************)
(* Command line.  An option that takes names is the sequence of the names  *)
(* given; the empty sequence stands for an option that is absent (nargs    *)
(* "+" admits no empty list), and for None in the namespace.               *)
(***************************************************************************)
DefaultTimeout == 3600

Absent == <<>>

\* argparse: the namespace before the compatibility rules
ArgparseNamespace(given) ==
    [headless |-> given.headless,
     no_console |-> given.no_console,
     device |-> given.device,
     exit_on_complete |-> given.exit_on_complete \/ given.legacy_exit_on_complete,
     timeout |-> DefaultTimeout,
     auto |-> given.auto,
     s |-> IF given.s = Absent THEN <<"all">> ELSE given.s]

\* the compatibility rules without the defaults of headless mode
ParseArgumentsNoDefaults(given) ==
    LET a0 == ArgparseNamespace(given)
        a1 == IF a0.auto /\ ~a0.headless THEN [a0 EXCEPT !.headless = TRUE] ELSE a0
    IN  IF a1.s # <<"all">> /\ a1.device = Absent
        THEN [a1 EXCEPT !.device = a1.s] ELSE a1

\* parse_arguments
ParseArguments(given) ==
    LET a0 == ArgparseNamespace(given)
        a1 == IF a0.auto /\ ~a0.headless THEN [a0 EXCEPT !.headless = TRUE] ELSE a0
        a2 == IF a1.s # <<"all">> /\ a1.device = Absent
              THEN [a1 EXCEPT !.device = a1.s] ELSE a1
        a3 == IF a2.exit_on_complete /\ ~a2.exit_on_complete
              THEN [a2 EXCEPT !.exit_on_complete = a2.exit_on_complete] ELSE a2
        a4 == IF a3.headless /\ ~a3.exit_on_complete
              THEN [a3 EXCEPT !.exit_on_complete = TRUE] ELSE a3
    IN  IF a4.headless /\ a4.device = Absent
        THEN [a4 EXCEPT !.device = <<"all">>] ELSE a4

NoNamespace ==
    [headless |-> FALSE, no_console |-> FALSE, device |-> Absent,
     exit_on_complete |-> FALSE, timeout |-> 0, auto |-> FALSE, s |-> Absent]

NoOptions ==
    [headless |-> FALSE, no_console |-> FALSE, device |-> Absent,
     exit_on_complete |-> FALSE, legacy_exit_on_complete |-> FALSE,
     auto |-> FALSE, s |-> Absent]

NotParsed ==
    /\ argv = NoOptions
    /\ args = NoNamespace
    /\ cli_stage = "start"
    /\ delayed_start = FALSE

\* no function has been applied yet
NothingCalled == applied = <<>> /\ returned = <<>>

\* no schedule has been looked at yet
NoSchedules == device_tasks = <<>> /\ now = 0

\* the main window has not been constructed
NoWindow == [stage |-> "none", size |-> <<0, 0>>, pos |-> <<0, 0>>, moved |-> FALSE]

NoHost == [system |-> "", machine |-> ""]

\* SettingsPage.__init__: the application update section
SettingsPageConstructed ==
    [check_button |-> TRUE, update_button_visible |-> FALSE, update_button |-> TRUE,
     update_checker_thread |-> "none", download_thread |-> "none",
     app_update_info |-> FALSE, target_asset_name |-> "", notice |-> ""]

NoFolder == [files |-> <<>>, dirs |-> <<>>]

NoTempDir == [frozen |-> FALSE, listable |-> TRUE, items |-> <<>>]

\* DownloadPage.git_installer_thread, SettingsPage.log_worker: none yet
NoThreads ==
    [git |-> "none", export |-> "none", left |-> 0, signals |-> <<>>,
     add_btn |-> TRUE]

NoEffect == [service |-> "", thread |-> "", cause |-> ""]

\* the main window, the download panel, the export worker and the combat
\* action before anything is constructed or run
PagesIdle ==
    /\ shell = <<>>
    /\ panel = <<>>
    /\ export_run = <<>>
    /\ combat = <<>>

\* the variables of the settings page and of the worker threads, untouched
SettingsIdle ==
    /\ host = NoHost
    /\ settings_page = SettingsPageConstructed
    /\ folder = NoFolder
    /\ temp_dir = NoTempDir
    /\ threads = NoThreads
    /\ ui_effect = NoEffect
    /\ PagesIdle

stVars == <<host, settings_page, folder, temp_dir, threads, ui_effect, pgVars>>

AppIdle == NothingCalled /\ NoSchedules /\ window = NoWindow /\ SettingsIdle

DefaultAppConfig ==
    [config_version |-> 1, devices |-> <<>>, resource_settings |-> <<>>,
     schedule_tasks |-> <<>>, CDK |-> "", github_token |-> "",
     resource_update_methods |-> EmptyDict, update_method |-> "github",
     receive_beta_update |-> FALSE, auto_check_update |-> FALSE,
     window_size |-> "800x600", window_position |-> "center",
     debug_model |-> FALSE, minimize_to_tray_on_close |-> FALSE,
     emulator_start_wait_time |-> 30]

InitConfig ==
    /\ config = DefaultAppConfig
    /\ doc \in Documents
    /\ arg = EmptyDict
    /\ uuid_count = 0
    /\ op = "init"
    /\ DownloadPageConstructed
    /\ OrchestratorConstructed
    /\ resource_configs = <<>>
    /\ WidgetsConstructed
    /\ NotParsed
    /\ AppIdle

\* AppConfig.from_json_file, once at startup: from_dict on the document of the file
LoadConfig ==
    /\ op = "init"
    /\ config' = AppConfigFromDict(doc, uuid_count)
    /\ uuid_count' = uuid_count + UuidsDrawn(doc)
    /\ op' = "from_dict"
    /\ arg' = EmptyDict
    /\ UNCHANGED <<doc, dlVars, suVars, rsVars, cliVars, appVars>>

\* AppConfig.to_json_file: to_dict into the document of the file
SaveConfig ==
    /\ \E iv_cdk \in Ivs, iv_token \in Ivs : doc' = ToDict(config, iv_cdk, iv_token)
    /\ op' = "to_dict"
    /\ arg' = EmptyDict
    /\ UNCHANGED <<config, uuid_count, dlVars, suVars, rsVars, cliVars, appVars>>

AddOrUpdateResourceSetting ==
    /\ \E setting_data \in SettingInputs :
          /\ config' = UpsertResourceSetting(config, setting_data)
          /\ arg' = setting_data
    /\ op' = "add_or_update_resource_setting"
    /\ UNCHANGED <<doc, uuid_count, dlVars, suVars, rsVars, cliVars, appVars>>

\* the settings page stores a redemption code and saves the configuration
SaveCdk ==
    /\ \E text \in Secrets, iv_cdk \in Ivs, iv_token \in Ivs :
          /\ config' = [config EXCEPT !.CDK = text]
          /\ doc' = ToDict(config', iv_cdk, iv_token)
    /\ op' = "save_cdk"
    /\ arg' = EmptyDict
    /\ UNCHANGED <<uuid_count, dlVars, suVars, rsVars, cliVars, appVars>>

NextConfig ==
    \/ LoadConfig
    \/ SaveConfig
    \/ AddOrUpdateResourceSetting
    \/ SaveCdk

SpecConfig == InitConfig /\ [][NextConfig]_vars

(***************************************************************************)
(* Record construction from loosely-typed dictionaries: from_dict,         *)
(* add_or_update_resource_setting and add_or_update_schedule_task applied  *)
(* to dictionaries with undeclared keys, to dictionaries that lack a       *)
(* required key and to values that are no dictionary.  An argument is the  *)
(* pair of its Python type and its value.                                  *)
(***************************************************************************)
MaxScheduleTasks == 3

TaskInstanceFields == {"task_name", "enabled", "options", "instance_id"}

OptionConfigFields == {"option_name", "value"}

AdbDeviceRequired == {"name", "adb_path", "address", "screencap_methods", "input_methods"}

Win32DeviceRequired == {"hWnd", "screencap_method", "input_method"}

ResourceRequired == {"resource_name", "settings_name"}

ScheduleTaskRequired == {"device_name", "resource_name"}

\* cls(**kwargs) raises TypeError on a keyword that is no field and on a
\* field without default that gets no argument
ConstructRaises(required, fields, kwargs) ==
    \/ DOMAIN kwargs \ fields # {}
    \/ required \ DOMAIN kwargs # {}

\* cls(**_filter_kwargs_for_class(cls, data))
FilteredConstructRaises(required, fields, data) ==
    ConstructRaises(required, fields, FilterKwargs(fields, data))

\* ResourceSettings.from_dict: TaskInstance(**{**inst_data, 'options': [OptionConfig(**opt) ...]})
ResourceSettingsFromDictRaises(data) ==
    LET task_instances_data == Get(data, "task_instances", <<>>)
    IN  \E i \in 1..Len(task_instances_data) :
           LET inst_data == task_instances_data[i].val
               options == Get(inst_data, "options", <<>>)
           IN  \/ \E j \in 1..Len(options) :
                     ConstructRaises(OptionConfigFields, OptionConfigFields, options[j])
               \/ ConstructRaises({"task_name"}, TaskInstanceFields, inst_data)

DeviceFromDataRaises(device_data) ==
    LET device_type == DeviceTypeOf(Get(device_data, "device_type", "adb"))
        resources_data == Get(device_data, "resources", <<>>)
    IN  \/ IF device_type = "ADB"
           THEN FilteredConstructRaises(AdbDeviceRequired, DOMAIN AdbDeviceDefaults,
                    IF Has(device_data, "controller_config")
                    THEN device_data.controller_config
                    ELSE Get(device_data, "adb_config", EmptyDict))
           ELSE FilteredConstructRaises(Win32DeviceRequired, DOMAIN Win32DeviceDefaults,
                    Get(device_data, "controller_config", EmptyDict))
        \/ \E i \in 1..Len(resources_data) :
              FilteredConstructRaises(ResourceRequired, DOMAIN ResourceDefaults,
                                      resources_data[i])
        \/ FilteredConstructRaises({"device_name"}, DOMAIN DeviceConfigDefaults,
                                   device_data)

\* AppConfig.from_dict(data) raises TypeError
AppConfigFromDictRaises(data) ==
    LET resource_settings_data == Get(data, "resource_settings", <<>>)
        devices_data == Get(data, "devices", <<>>)
        schedule_tasks_data == Get(data, "schedule_tasks", <<>>)
    IN  \/ \E i \in 1..Len(resource_settings_data) :
              LET settings_data == resource_settings_data[i]
                  options_data == Get(settings_data, "options", <<>>)
              IN  IF IsLegacy(DocVersion(data), settings_data)
                  THEN \E j \in 1..Len(options_data) :
                          FilteredConstructRaises(OptionConfigFields, OptionConfigFields,
                                                  options_data[j])
                  ELSE ResourceSettingsFromDictRaises(settings_data)
        \/ \E i \in 1..Len(devices_data) : DeviceFromDataRaises(devices_data[i])
        \/ \E i \in 1..Len(schedule_tasks_data) :
              FilteredConstructRaises(ScheduleTaskRequired, DOMAIN ScheduleTaskDefaults(""),
                                      schedule_tasks_data[i])

\* uuid4 values add_or_update_schedule_task draws: the default of schedule_id,
\* or the replacement of an empty one
UpsertUuids(task_data) ==
    IF Has(task_data, "schedule_id") /\ task_data.schedule_id # "" THEN 0 ELSE 1

\* add_or_update_schedule_task that appends without looking for a match
UpsertScheduleTaskAppend(c, task_data, fresh_id) ==
    [c EXCEPT !.schedule_tasks =
        Append(@, Construct(ScheduleTaskDefaults(fresh_id),
                            FilterKwargs(DOMAIN ScheduleTaskDefaults(""), task_data)))]

\* AppConfig.add_or_update_schedule_task, for a dictionary that constructs
UpsertScheduleTask(c, task_data, fresh_id) ==
    LET built == Construct(ScheduleTaskDefaults(fresh_id),
                           FilterKwargs(DOMAIN ScheduleTaskDefaults(""), task_data))
        new_task == IF built.schedule_id = ""
                    THEN [built EXCEPT !.schedule_id = fresh_id] ELSE built
        matches == {i \in 1..Len(c.schedule_tasks) :
                       c.schedule_tasks[i].schedule_id = new_task.schedule_id}
    IN  IF matches # {}
        THEN [c EXCEPT !.schedule_tasks[CHOOSE i \in matches :
                                           \A j \in matches : i <= j] = new_task]
        ELSE [c EXCEPT !.schedule_tasks = Append(@, new_task)]

Dict(value) == [type |-> "dict", value |-> value]

NonDictionaries ==
    {[type |-> "list", value |-> [items |-> <<"s1">>]],
     [type |-> "NoneType", value |-> [none |-> TRUE]]}

IsDict(argument) == argument.type = "dict"

\* a task instance and an option with a key their record types do not declare
InstanceWithExtraKey ==
    [key |-> "i1", val |-> [task_name |-> "a", enabled |-> TRUE, options |-> <<>>,
                            instance_id |-> "i1", comment |-> "x"]]

InstanceWithExtraOptionKey ==
    [key |-> "i1", val |-> [task_name |-> "a", enabled |-> TRUE,
                            options |-> <<[option_name |-> "x", value |-> 1,
                                           label |-> "X"]>>,
                            instance_id |-> "i1"]]

SettingDicts ==
    {[name |-> "s1", resource_name |-> "r1", task_instances |-> <<Entry("i1")>>],
     [name |-> "s1", resource_name |-> "r1", task_instances |-> <<Entry("i2")>>,
      task_order |-> <<"i2">>],
     [name |-> "s2", resource_name |-> "r1", task_instances |-> <<Entry("i1")>>,
      description |-> "undeclared"],
     [name |-> "", resource_name |-> "r1", task_instances |-> <<Entry("i1")>>],
     [name |-> "s1", resource_name |-> "r1", task_instances |-> <<InstanceWithExtraKey>>],
     [name |-> "s1", resource_name |-> "r1",
      task_instances |-> <<InstanceWithExtraOptionKey>>]}

SettingArguments == {Dict(d) : d \in SettingDicts} \cup NonDictionaries

TaskDicts ==
    {ScheduleData @@ ("schedule_id" :> "sch-1"),
     [ScheduleData EXCEPT !.enabled = FALSE] @@ ("schedule_id" :> "sch-1"),
     ScheduleData @@ ("schedule_id" :> "sch-2") @@ ("position" :> 3),
     ScheduleData,
     ScheduleData @@ ("schedule_id" :> ""),
     [resource_name |-> "r1", schedule_id |-> "sch-1"]}

TaskArguments == {Dict(d) : d \in TaskDicts} \cup NonDictionaries

\* documents whose records carry undeclared keys, one record type at a time
ExtraKeyDocuments ==
    {("config_version" :> 2) @@ d : d \in
        {EmptyDict,
         [devices |-> <<[device_name |-> "d1", device_type |-> "adb",
                         controller_config |-> AdbData @@ ("port" :> 5555),
                         resources |-> <<[resource_name |-> "r1",
                                          settings_name |-> "s1", note |-> "x"]>>,
                         group |-> "g"]>>],
         [devices |-> <<[device_name |-> "w1", device_type |-> "win32",
                         controller_config |-> [hWnd |-> 7, screencap_method |-> 1,
                                                input_method |-> 1, title |-> "w"]]>>],
         [schedule_tasks |-> <<ScheduleData @@ ("schedule_id" :> "sch-1")
                                 @@ ("position" :> 3)>>],
         [schedule_tasks |-> <<ScheduleData @@ ("schedule_id" :> "sch-1"),
                               ScheduleData @@ ("schedule_id" :> "sch-1")>>],
         [resource_settings |-> <<[name |-> "s1", resource_name |-> "r1",
                                   task_instances |-> <<Entry("i1")>>,
                                   description |-> "undeclared"]>>],
         [resource_settings |-> <<[name |-> "s1", resource_name |-> "r1",
                                   task_instances |-> <<Entry("i1")>>],
                                  [name |-> "s1", resource_name |-> "r1",
                                   task_instances |-> <<Entry("i2")>>]>>],
         [resource_settings |-> <<[name |-> "s1", resource_name |-> "r1",
                                   task_instances |-> <<InstanceWithExtraKey>>]>>],
         [resource_settings |-> <<[name |-> "s1", resource_name |-> "r1",
                                   task_instances |-> <<InstanceWithExtraOptionKey>>]>>]}}
    \cup {[config_version |-> 1,
           resource_settings |-> <<[name |-> "old", resource_name |-> "r1",
                                    selected_tasks |-> <<"a">>,
                                    options |-> <<[option_name |-> "x", value |-> 1,
                                                   label |-> "X"]>>]>>]}

InitRecords ==
    /\ config = DefaultAppConfig
    /\ doc \in ExtraKeyDocuments
    /\ arg = EmptyDict
    /\ uuid_count = 0
    /\ op = "init"
    /\ DownloadPageConstructed
    /\ OrchestratorConstructed
    /\ resource_configs = <<>>
    /\ WidgetsConstructed
    /\ NotParsed
    /\ AppIdle

rcRest == <<dlVars, suVars, rsVars, cliVars, applied, device_tasks, now, window, stVars>>

\* AppConfig.from_dict on the document of the file, once at startup
CallFromDict ==
    /\ op = "init"
    /\ IF AppConfigFromDictRaises(doc)
       THEN /\ returned' = <<"TypeError">>
            /\ UNCHANGED <<config, uuid_count>>
       ELSE /\ returned' = <<"AppConfig">>
            /\ config' = AppConfigFromDict(doc, uuid_count)
            /\ uuid_count' = uuid_count + UuidsDrawn(doc)
    /\ op' = "from_dict"
    /\ arg' = EmptyDict
    /\ UNCHANGED <<doc, rcRest>>

\* AppConfig.add_or_update_resource_setting(setting_data)
CallAddOrUpdateResourceSetting ==
    /\ \E setting_data \in SettingArguments :
          /\ arg' = setting_data
          /\ IF ~IsDict(setting_data)
             THEN returned' = <<"None">> /\ UNCHANGED config
             ELSE IF ResourceSettingsFromDictRaises(setting_data.value)
             THEN returned' = <<"TypeError">> /\ UNCHANGED config
             ELSE /\ returned' = <<"None">>
                  /\ config' = UpsertResourceSetting(config, setting_data.value)
    /\ op' = "add_or_update_resource_setting"
    /\ UNCHANGED <<doc, uuid_count, rcRest>>

\* AppConfig.add_or_update_schedule_task(task_data)
CallAddOrUpdateScheduleTask ==
    /\ \E task_data \in TaskArguments :
          /\ arg' = task_data
          /\ IF ~IsDict(task_data)
             THEN returned' = <<"None">> /\ UNCHANGED <<config, uuid_count>>
             ELSE IF FilteredConstructRaises(ScheduleTaskRequired,
                         DOMAIN ScheduleTaskDefaults(""), task_data.value)
             THEN returned' = <<"TypeError">> /\ UNCHANGED <<config, uuid_count>>
             ELSE /\ UpsertUuids(task_data.value) = 0
                     \/ Len(config.schedule_tasks) < MaxScheduleTasks
                  /\ returned' = <<"None">>
                  /\ uuid_count' = uuid_count + UpsertUuids(task_data.value)
                  /\ config' = UpsertScheduleTask(config, task_data.value,
                                IF UpsertUuids(task_data.value) = 0 THEN ""
                                ELSE Uuid(uuid_count'))
    /\ op' = "add_or_update_schedule_task"
    /\ UNCHANGED <<doc, rcRest>>

NextRecords ==
    \/ CallFromDict
    \/ CallAddOrUpdateResourceSetting
    \/ CallAddOrUpdateScheduleTask

SpecRecords == InitRecords /\ [][NextRecords]_vars

(***************************************************************************)
(* Download page: the slots.                                               *)
(***************************************************************************)
InitDownload ==
    /\ config = DefaultAppConfig
    /\ doc = ToDict(DefaultAppConfig, 1, 1)
    /\ arg = EmptyDict
    /\ uuid_count = 0
    /\ op = "init"
    /\ DownloadPageConstructed
    /\ OrchestratorConstructed
    /\ resource_configs = <<>>
    /\ WidgetsConstructed
    /\ NotParsed
    /\ AppIdle

\* global_config.save_all_configs()
SaveAllConfigs(c) ==
    \E iv_cdk \in Ivs, iv_token \in Ivs : doc' = ToDict(c, iv_cdk, iv_token)

Called(handler, name) ==
    /\ op' = handler
    /\ resource' = name

\* ResourceDetailView._on_check_clicked -> check_update_clicked
OnCheckClicked ==
    \E name \in Names :
        /\ SetPage(CheckResourceUpdate(Page, name, FALSE))
        /\ Called("_check_resource_update", name)
        /\ UNCHANGED <<cfgVars, suVars, rsVars, cliVars, appVars, batch_checker_thread, check_all_btn>>

\* ResourceDetailView._on_force_update_clicked -> force_check_update_clicked
OnForceUpdateClicked ==
    \E name \in Names :
        /\ SetPage(CheckResourceUpdate(Page, name, TRUE))
        /\ Called("_force_check_resource_update", name)
        /\ UNCHANGED <<cfgVars, suVars, rsVars, cliVars, appVars, batch_checker_thread, check_all_btn>>

\* start_update_clicked -> DownloadPage._start_update
OnUpdateClicked ==
    \E name \in Names :
        LET p == StartUpdate(Page, name)
        IN  /\ InstallsBounded(p)
            /\ SetPage(p)
            /\ Called("_start_update", name)
            /\ UNCHANGED <<cfgVars, suVars, rsVars, cliVars, appVars, batch_checker_thread, check_all_btn>>

\* cancel_download_clicked -> DownloadPage._cancel_download
CancelDownload ==
    \E name \in Names :
        LET running == Worker("download", name, "running", FALSE)
        IN  /\ workers' =
                  IF name \in active_downloaders /\ BagIn(running, workers)
                  THEN Start(Stop(workers, running),
                             Worker("download", name, "cancelled", FALSE))
                  ELSE workers
            /\ Called("_cancel_download", name)
            /\ UNCHANGED <<cfgVars, suVars, rsVars, cliVars, appVars, active_checkers, active_downloaders,
                           update_status_cache, current_update_info,
                           batch_checker_thread, check_all_btn>>

IsMirror(method) == method \in {"MirrorChyan", "mirrorchyan"}

\* what ResourceDetailView.set_resource puts into the two combo boxes
SourceText(c, name) ==
    IF IsMirror(GetResourceUpdateMethod(c, name)) THEN "Mirror" ELSE "GitHub"

ChannelText(c, name) ==
    LET channel == GetResourceUpdateChannel(c, name)
    IN  IF \E t \in DOMAIN CHANNEL_MAP : CHANNEL_MAP[t] = channel
        THEN CHOOSE t \in DOMAIN CHANNEL_MAP : CHANNEL_MAP[t] = channel
        ELSE "Stable"

GetCurrentMethodFromUi(c, name) ==
    IF SourceText(c, name) = "Mirror" THEN "MirrorChyan" ELSE "github"

ResourceUpdateConfig(method, channel, auto_download_update) ==
    [method |-> method, channel |-> channel,
     auto_download_update |-> auto_download_update]

\* ResourceDetailView._on_source_changed, then source_changed_recheck
OnSourceChanged ==
    \E name \in Names, text \in SourceTexts :
        LET new_method == IF text = "Mirror" THEN "MirrorChyan" ELSE "github"
            methods == config.resource_update_methods
            current_channel == CHANNEL_MAP[ChannelText(config, name)]
            changed == ~Has(methods, name) \/ methods[name].method # new_method
            entry == IF ~Has(methods, name)
                     THEN ResourceUpdateConfig(new_method, current_channel, FALSE)
                     ELSE [methods[name] EXCEPT !.method = new_method]
        IN  /\ text # SourceText(config, name)
            /\ IF changed
               THEN /\ config' = [config EXCEPT !.resource_update_methods =
                                                    Put(@, name, entry)]
                    /\ SaveAllConfigs(config')
                    /\ SetPage(CheckResourceUpdate(Page, name, FALSE))
               ELSE /\ SetPage(Page)
                    /\ UNCHANGED <<config, doc>>
            /\ Called("_on_source_changed", name)
            /\ UNCHANGED <<arg, uuid_count, suVars, rsVars, cliVars, appVars, batch_checker_thread, check_all_btn>>

\* ResourceDetailView._on_channel_changed, then source_changed_recheck
OnChannelChanged ==
    \E name \in Names, text \in DOMAIN CHANNEL_MAP :
        LET new_channel == CHANNEL_MAP[text]
            methods == config.resource_update_methods
            changed == ~Has(methods, name) \/ methods[name].channel # new_channel
            entry == IF ~Has(methods, name)
                     THEN ResourceUpdateConfig(GetCurrentMethodFromUi(config, name),
                                               new_channel, FALSE)
                     ELSE [methods[name] EXCEPT !.channel = new_channel]
        IN  /\ text # ChannelText(config, name)
            /\ IF changed
               THEN /\ config' = [config EXCEPT !.resource_update_methods =
                                                    Put(@, name, entry)]
                    /\ SaveAllConfigs(config')
                    /\ SetPage(CheckResourceUpdate(Page, name, FALSE))
               ELSE /\ SetPage(Page)
                    /\ UNCHANGED <<config, doc>>
            /\ Called("_on_channel_changed", name)
            /\ UNCHANGED <<arg, uuid_count, suVars, rsVars, cliVars, appVars, batch_checker_thread, check_all_btn>>

\* ResourceDetailView._on_auto_download_changed
OnAutoDownloadChanged ==
    \E name \in Names, auto_download \in BOOLEAN :
        LET methods == config.resource_update_methods
            entry == IF ~Has(methods, name)
                     THEN ResourceUpdateConfig(
                              GetCurrentMethodFromUi(config, name),
                              CHANNEL_MAP[ChannelText(config, name)],
                              auto_download)
                     ELSE [methods[name] EXCEPT !.auto_download_update = auto_download]
        IN  /\ auto_download # GetResourceAutoDownload(config, name)
            /\ config' = [config EXCEPT !.resource_update_methods =
                                            Put(@, name, entry)]
            /\ SaveAllConfigs(config')
            /\ Called("_on_auto_download_changed", name)
            /\ UNCHANGED <<arg, uuid_count, suVars, rsVars, cliVars, appVars, active_checkers, active_downloaders,
                           update_status_cache, current_update_info, workers,
                           batch_checker_thread, check_all_btn>>

\* DownloadPage.check_all_updates
CheckAllUpdates ==
    /\ check_all_btn
    /\ IF Catalog = <<>>
       THEN UNCHANGED <<update_status_cache, batch_checker_thread, check_all_btn>>
       ELSE /\ update_status_cache' =
                  [n \in DOMAIN update_status_cache \cup Names |->
                      IF n \in Names THEN "checking" ELSE update_status_cache[n]]
            /\ batch_checker_thread' =
                  [stage |-> "running", remaining |-> Catalog, found |-> 0]
            /\ check_all_btn' = FALSE
    /\ Called("check_all_updates", "")
    /\ UNCHANGED <<cfgVars, suVars, rsVars, cliVars, appVars, active_checkers, active_downloaders,
                   current_update_info, workers>>

Report(w, worker) == Start(Stop(w, worker), [worker EXCEPT !.stage = "reported"])

\* a single-mode checker emits update_found -> DownloadPage._handle_update_found
CheckerUpdateFound ==
    \E name \in Names, force \in BOOLEAN, source \in Sources :
        LET thread == Worker("check", name, "running", force)
            p == UpdateFound([Page EXCEPT !.workers = Report(@, thread)],
                             UpdateInfo(name, source))
        IN  /\ BagIn(thread, workers)
            /\ InstallsBounded(p)
            /\ SetPage(p)
            /\ Called("_handle_update_found", name)
            /\ UNCHANGED <<cfgVars, suVars, rsVars, cliVars, appVars, batch_checker_thread, check_all_btn>>

\* a single-mode checker emits update_not_found -> _handle_update_not_found
CheckerUpdateNotFound ==
    \E name \in Names, force \in BOOLEAN :
        LET thread == Worker("check", name, "running", force)
        IN  /\ BagIn(thread, workers)
            /\ workers' = Report(workers, thread)
            /\ update_status_cache' = Put(update_status_cache, name, "latest")
            /\ Called("_handle_update_not_found", name)
            /\ UNCHANGED <<cfgVars, suVars, rsVars, cliVars, appVars, active_checkers, active_downloaders,
                           current_update_info, batch_checker_thread, check_all_btn>>

\* a single-mode checker emits check_failed -> _handle_check_failed
CheckerCheckFailed ==
    \E name \in Names, force \in BOOLEAN :
        LET thread == Worker("check", name, "running", force)
        IN  /\ BagIn(thread, workers)
            /\ workers' = Report(workers, thread)
            /\ update_status_cache' = Put(update_status_cache, name, "error")
            /\ Called("_handle_check_failed", name)
            /\ UNCHANGED <<cfgVars, suVars, rsVars, cliVars, appVars, active_checkers, active_downloaders,
                           current_update_info, batch_checker_thread, check_all_btn>>

\* thread.finished of a single-mode checker: the lambda of _check_resource_update
CheckerFinished ==
    \E name \in Names, force \in BOOLEAN :
        LET thread == Worker("check", name, "reported", force)
        IN  /\ BagIn(thread, workers)
            /\ workers' = Stop(workers, thread)
            /\ active_checkers' = active_checkers \ {name}
            /\ Called("checker_finished", name)
            /\ UNCHANGED <<cfgVars, suVars, rsVars, cliVars, appVars, active_downloaders, update_status_cache,
                           current_update_info, batch_checker_thread, check_all_btn>>

BatchChecking ==
    batch_checker_thread.stage = "running" /\ batch_checker_thread.remaining # <<>>

BatchAdvance(found) ==
    [batch_checker_thread EXCEPT !.remaining = Tail(@), !.found = @ + found]

\* the batch checker emits update_found for its next resource
BatchUpdateFound ==
    /\ BatchChecking
    /\ \E source \in Sources :
          LET name == Head(batch_checker_thread.remaining)
              p == UpdateFound(Page, UpdateInfo(name, source))
          IN  /\ InstallsBounded(p)
              /\ SetPage(p)
              /\ Called("_handle_update_found", name)
    /\ batch_checker_thread' = BatchAdvance(1)
    /\ UNCHANGED <<cfgVars, suVars, rsVars, cliVars, appVars, check_all_btn>>

\* the batch checker emits update_not_found for its next resource
BatchUpdateNotFound ==
    /\ BatchChecking
    /\ LET name == Head(batch_checker_thread.remaining)
       IN  /\ update_status_cache' = Put(update_status_cache, name, "latest")
           /\ Called("_handle_update_not_found", name)
    /\ batch_checker_thread' = BatchAdvance(0)
    /\ UNCHANGED <<cfgVars, suVars, rsVars, cliVars, appVars, active_checkers, active_downloaders,
                   current_update_info, workers, check_all_btn>>

\* the batch checker emits check_failed for its next resource
BatchCheckFailed ==
    /\ BatchChecking
    /\ LET name == Head(batch_checker_thread.remaining)
       IN  /\ update_status_cache' = Put(update_status_cache, name, "error")
           /\ Called("_handle_check_failed", name)
    /\ batch_checker_thread' = BatchAdvance(0)
    /\ UNCHANGED <<cfgVars, suVars, rsVars, cliVars, appVars, active_checkers, active_downloaders,
                   current_update_info, workers, check_all_btn>>

\* check_completed -> DownloadPage._handle_batch_check_completed
HandleBatchCheckCompleted ==
    /\ batch_checker_thread.stage = "running"
    /\ batch_checker_thread.remaining = <<>>
    /\ batch_checker_thread' = NoBatch
    /\ check_all_btn' = TRUE
    /\ Called("_handle_batch_check_completed", "")
    /\ UNCHANGED <<cfgVars, suVars, rsVars, cliVars, appVars, active_checkers, active_downloaders,
                   update_status_cache, current_update_info, workers>>

\* download_completed -> DownloadPage._handle_download_completed
HandleDownloadCompleted ==
    \E name \in Names :
        LET thread == Worker("download", name, "running", FALSE)
            q == [Page EXCEPT !.workers = Report(@, thread)]
            p == IF name \in Names THEN InstallUpdate(q, name) ELSE q
        IN  /\ BagIn(thread, workers)
            /\ InstallsBounded(p)
            /\ SetPage(p)
            /\ Called("_handle_download_completed", name)
            /\ UNCHANGED <<cfgVars, suVars, rsVars, cliVars, appVars, batch_checker_thread, check_all_btn>>

\* download_failed -> DownloadPage._handle_download_failed
HandleDownloadFailed ==
    \E name \in Names, stage \in {"running", "cancelled"} :
        LET thread == Worker("download", name, stage, FALSE)
        IN  /\ BagIn(thread, workers)
            /\ workers' = Report(workers, thread)
            /\ Called("_handle_download_failed", name)
            /\ UNCHANGED <<cfgVars, suVars, rsVars, cliVars, appVars, active_checkers, active_downloaders,
                           update_status_cache, current_update_info,
                           batch_checker_thread, check_all_btn>>

\* thread.finished of a downloader: the lambda of _start_update
DownloaderFinished ==
    \E name \in Names, stage \in {"reported", "cancelled"} :
        LET thread == Worker("download", name, stage, FALSE)
        IN  /\ BagIn(thread, workers)
            /\ workers' = Stop(workers, thread)
            /\ active_downloaders' = active_downloaders \ {name}
            /\ Called("downloader_finished", name)
            /\ UNCHANGED <<cfgVars, suVars, rsVars, cliVars, appVars, active_checkers, update_status_cache,
                           current_update_info, batch_checker_thread, check_all_btn>>

\* install_completed -> DownloadPage._handle_install_completed
HandleInstallCompleted ==
    \E name \in Names :
        LET run == Worker("install", name, "running", FALSE)
        IN  /\ BagIn(run, workers)
            /\ workers' = Stop(workers, run)
            /\ update_status_cache' = Pop(update_status_cache, name)
            /\ current_update_info' = Pop(current_update_info, name)
            /\ Called("_handle_install_completed", name)
            /\ UNCHANGED <<cfgVars, suVars, rsVars, cliVars, appVars, active_checkers, active_downloaders,
                           batch_checker_thread, check_all_btn>>

\* install_failed -> DownloadPage._handle_install_failed
HandleInstallFailed ==
    \E name \in Names :
        LET run == Worker("install", name, "running", FALSE)
        IN  /\ BagIn(run, workers)
            /\ workers' = Stop(workers, run)
            /\ Called("_handle_install_failed", name)
            /\ UNCHANGED <<cfgVars, suVars, rsVars, cliVars, appVars, active_checkers, active_downloaders,
                           update_status_cache, current_update_info,
                           batch_checker_thread, check_all_btn>>

NextDownload ==
    \/ OnCheckClicked
    \/ OnForceUpdateClicked
    \/ OnUpdateClicked
    \/ CancelDownload
    \/ OnSourceChanged
    \/ OnChannelChanged
    \/ OnAutoDownloadChanged
    \/ CheckAllUpdates
    \/ CheckerUpdateFound
    \/ CheckerUpdateNotFound
    \/ CheckerCheckFailed
    \/ CheckerFinished
    \/ BatchUpdateFound
    \/ BatchUpdateNotFound
    \/ BatchCheckFailed
    \/ HandleBatchCheckCompleted
    \/ HandleDownloadCompleted
    \/ HandleDownloadFailed
    \/ DownloaderFinished
    \/ HandleInstallCompleted
    \/ HandleInstallFailed

SpecDownload == InitDownload /\ [][NextDownload]_vars

(***************************************************************************)
(* Startup update orchestrator: the handlers.                              *)
(***************************************************************************)
\* what a scan of the installed-resources directory can yield
DirectoryScans ==
    {<<>>, <<"r1", "r2", "r3">>, <<"r3", "r1", "r2">>, <<"r1", "r3">>}

\* the sets of resources whose auto-download preference is on
AutoDownloadChoices == {{}, {"r1", "r3"}, {"r1", "r2", "r3"}}

InitStartup ==
    /\ \E auto_check \in BOOLEAN, auto \in AutoDownloadChoices :
          config = [DefaultAppConfig EXCEPT
                       !.auto_check_update = auto_check,
                       !.resource_update_methods =
                           [n \in auto |-> ResourceUpdateConfig("github", "stable", TRUE)]]
    /\ doc = ToDict(config, 1, 1)
    /\ arg = EmptyDict
    /\ uuid_count = 0
    /\ op = "init"
    /\ DownloadPageConstructed
    /\ OrchestratorConstructed
    /\ resource_configs \in DirectoryScans
    /\ WidgetsConstructed
    /\ NotParsed
    /\ AppIdle

\* StartupResourceUpdateChecker.check_for_updates, fired once by the timer
CheckForUpdates ==
    /\ startup_timer
    /\ startup_timer' = FALSE
    /\ IF config.auto_check_update /\ resource_configs # <<>>
       THEN /\ startup_update_in_progress' = TRUE
            /\ update_checker_thread' =
                  [stage |-> "running", remaining |-> resource_configs, found |-> 0]
       ELSE /\ startup_update_in_progress' = FALSE
            /\ UNCHANGED update_checker_thread
    /\ Called("check_for_updates", "")
    /\ UNCHANGED <<cfgVars, dlPage, rsVars, cliVars, appVars,
                   resources_with_updates, auto_update_downloaders,
                   auto_update_pending, current_auto_update, auto_workers,
                   resource_configs, queued, started>>

StartupChecking ==
    update_checker_thread.stage = "running" /\ update_checker_thread.remaining # <<>>

CheckerAdvance(found) ==
    [update_checker_thread EXCEPT !.remaining = Tail(@), !.found = @ + found]

\* StartupResourceUpdateChecker._handle_resource_update_found
HandleResourceUpdateFound ==
    /\ StartupChecking
    /\ \E source \in Sources :
          LET name == Head(update_checker_thread.remaining)
              update_info == UpdateInfo(name, source)
              queue_it == /\ GetResourceAutoDownload(config, name)
                          /\ name \notin Range(NamesOf(auto_update_pending))
          IN  /\ resources_with_updates' = Append(resources_with_updates, update_info)
              /\ auto_update_pending' =
                    IF queue_it THEN Append(auto_update_pending, update_info)
                    ELSE auto_update_pending
              /\ queued' = IF queue_it THEN Append(queued, name) ELSE queued
              /\ Called("_handle_resource_update_found", name)
    /\ update_checker_thread' = CheckerAdvance(1)
    /\ UNCHANGED <<cfgVars, dlPage, rsVars, cliVars, appVars, startup_update_in_progress, startup_timer,
                   auto_update_downloaders, current_auto_update, auto_workers,
                   resource_configs, started>>

\* StartupResourceUpdateChecker._handle_resource_update_not_found
HandleResourceUpdateNotFound ==
    /\ StartupChecking
    /\ Called("_handle_resource_update_not_found", Head(update_checker_thread.remaining))
    /\ update_checker_thread' = CheckerAdvance(0)
    /\ UNCHANGED <<cfgVars, dlPage, rsVars, cliVars, appVars, startup_update_in_progress, startup_timer,
                   resources_with_updates, auto_update_downloaders,
                   auto_update_pending, current_auto_update, auto_workers,
                   resource_configs, queued, started>>

\* StartupResourceUpdateChecker._handle_resource_check_failed
HandleResourceCheckFailed ==
    /\ StartupChecking
    /\ Called("_handle_resource_check_failed", Head(update_checker_thread.remaining))
    /\ update_checker_thread' = CheckerAdvance(0)
    /\ UNCHANGED <<cfgVars, dlPage, rsVars, cliVars, appVars, startup_update_in_progress, startup_timer,
                   resources_with_updates, auto_update_downloaders,
                   auto_update_pending, current_auto_update, auto_workers,
                   resource_configs, queued, started>>

\* StartupResourceUpdateChecker._handle_check_completed
HandleCheckCompleted ==
    /\ update_checker_thread.stage = "running"
    /\ update_checker_thread.remaining = <<>>
    /\ update_checker_thread' = [update_checker_thread EXCEPT !.stage = "completed"]
    /\ SetOrchestrator(
          ClearFlagIfIdle(
              IF auto_update_pending # <<>> /\ current_auto_update = NoUpdate
              THEN StartNextAutoUpdate(Orchestrator, resource_configs)
              ELSE Orchestrator))
    /\ Called("_handle_check_completed", "")
    /\ UNCHANGED <<cfgVars, dlPage, rsVars, cliVars, appVars, startup_timer, resources_with_updates,
                   resource_configs, queued>>

\* StartupResourceUpdateChecker._handle_auto_download_completed
HandleAutoDownloadCompleted ==
    \E name \in Range(started) :
        LET thread == Worker("download", name, "running", FALSE)
            s == [Orchestrator EXCEPT !.workers = Report(@, thread)]
        IN  /\ BagIn(thread, auto_workers)
            /\ SetOrchestrator(
                  IF name \notin Range(resource_configs) /\ name # MainProgram
                  THEN AdvanceQueue(s, name, resource_configs)
                  ELSE [s EXCEPT !.workers =
                           Start(@, Worker("install", name, "running", FALSE))])
            /\ Called("_handle_auto_download_completed", name)
            /\ UNCHANGED <<cfgVars, dlPage, rsVars, cliVars, appVars, startup_timer, update_checker_thread,
                           resources_with_updates, resource_configs, queued>>

\* StartupResourceUpdateChecker._handle_auto_download_failed
HandleAutoDownloadFailed ==
    \E name \in Range(started) :
        LET thread == Worker("download", name, "running", FALSE)
            s == [Orchestrator EXCEPT !.workers = Report(@, thread)]
        IN  /\ BagIn(thread, auto_workers)
            /\ SetOrchestrator(AdvanceQueue(s, name, resource_configs))
            /\ Called("_handle_auto_download_failed", name)
            /\ UNCHANGED <<cfgVars, dlPage, rsVars, cliVars, appVars, startup_timer, update_checker_thread,
                           resources_with_updates, resource_configs, queued>>

\* downloader.finished: the lambda of _start_auto_update
AutoDownloaderFinished ==
    \E name \in Range(started) :
        LET thread == Worker("download", name, "reported", FALSE)
        IN  /\ BagIn(thread, auto_workers)
            /\ auto_workers' = Stop(auto_workers, thread)
            /\ auto_update_downloaders' = auto_update_downloaders \ {name}
            /\ Called("auto_downloader_finished", name)
            /\ UNCHANGED <<cfgVars, dlPage, rsVars, cliVars, appVars, startup_update_in_progress, startup_timer,
                           update_checker_thread, resources_with_updates,
                           auto_update_pending, current_auto_update,
                           resource_configs, queued, started>>

WithoutResource(update_infos, resource_name) ==
    SelectSeq(update_infos, LAMBDA info : info.resource_name # resource_name)

\* StartupResourceUpdateChecker._handle_install_completed
HandleAutoInstallCompleted ==
    \E name \in Range(started), scan \in DirectoryScans :
        LET run == Worker("install", name, "running", FALSE)
            s == [Orchestrator EXCEPT !.workers = Stop(@, run)]
        IN  /\ BagIn(run, auto_workers)
            /\ resource_configs' = scan
            /\ resources_with_updates' = WithoutResource(resources_with_updates, name)
            /\ SetOrchestrator(AdvanceQueue(s, name, scan))
            /\ Called("_handle_install_completed", name)
            /\ UNCHANGED <<cfgVars, dlPage, rsVars, cliVars, appVars, startup_timer, update_checker_thread, queued>>

\* StartupResourceUpdateChecker._handle_install_failed
HandleAutoInstallFailed ==
    \E name \in Range(started) :
        LET run == Worker("install", name, "running", FALSE)
            s == [Orchestrator EXCEPT !.workers = Stop(@, run)]
        IN  /\ BagIn(run, auto_workers)
            /\ SetOrchestrator(AdvanceQueue(s, name, resource_configs))
            /\ Called("_handle_install_failed", name)
            /\ UNCHANGED <<cfgVars, dlPage, rsVars, cliVars, appVars, startup_timer, update_checker_thread,
                           resources_with_updates, resource_configs, queued>>

\* DownloadPage._handle_add_succeeded: the catalog is scanned again
HandleAddSucceeded ==
    /\ \E scan \in DirectoryScans : resource_configs' = scan
    /\ Called("_handle_add_succeeded", "")
    /\ UNCHANGED <<cfgVars, dlPage, rsVars, cliVars, appVars, startup_update_in_progress, startup_timer,
                   update_checker_thread, resources_with_updates,
                   auto_update_downloaders, auto_update_pending,
                   current_auto_update, auto_workers, queued, started>>

NextStartup ==
    \/ CheckForUpdates
    \/ HandleResourceUpdateFound
    \/ HandleResourceUpdateNotFound
    \/ HandleResourceCheckFailed
    \/ HandleCheckCompleted
    \/ HandleAutoDownloadCompleted
    \/ HandleAutoDownloadFailed
    \/ AutoDownloaderFinished
    \/ HandleAutoInstallCompleted
    \/ HandleAutoInstallFailed
    \/ HandleAddSucceeded

SpecStartup == InitStartup /\ [][NextStartup]_vars

(***************************************************************************)
(* Startup update orchestrator under fair reporting: every check, download *)
(* and install that was started reports; an install may report             *)
(* restart_required alone.  The timer and the addition of resources are    *)
(* not forced to happen.                                                   *)
(***************************************************************************)
\* StartupResourceUpdateChecker._handle_restart_required, for an install
\* that reports restart_required and neither completed nor failed
HandleAutoRestartRequired ==
    \E name \in Range(started) :
        LET run == Worker("install", name, "running", FALSE)
        IN  /\ BagIn(run, auto_workers)
            /\ auto_workers' = Stop(auto_workers, run)
            /\ ui_effect' = [service |-> "QTimer.singleShot(5000, QCoreApplication.quit)",
                             thread |-> "interface",
                             cause |-> "restart_required"]
            /\ Called("_handle_restart_required", name)
            /\ UNCHANGED <<cfgVars, dlPage, rsVars, cliVars, applied, returned,
                           device_tasks, now, window, host, settings_page,
                           folder, temp_dir, threads, pgVars,
                           startup_update_in_progress, startup_timer,
                           update_checker_thread, resources_with_updates,
                           auto_update_downloaders, auto_update_pending,
                           current_auto_update, resource_configs, queued,
                           started>>

\* a result of the update check is delivered
CheckReports ==
    \/ HandleResourceUpdateFound
    \/ HandleResourceUpdateNotFound
    \/ HandleResourceCheckFailed
    \/ HandleCheckCompleted

\* the terminal event of a download is delivered
DownloadReports ==
    \/ HandleAutoDownloadCompleted
    \/ HandleAutoDownloadFailed
    \/ AutoDownloaderFinished

\* the terminal event of an install is delivered
InstallReports ==
    \/ HandleAutoInstallCompleted
    \/ HandleAutoInstallFailed
    \/ HandleAutoRestartRequired

NextStartupFair ==
    \/ CheckForUpdates
    \/ CheckReports
    \/ DownloadReports
    \/ InstallReports
    \/ HandleAddSucceeded

SpecStartupFair ==
    /\ InitStartup
    /\ [][NextStartupFair]_vars
    /\ WF_vars(CheckReports)
    /\ WF_vars(DownloadReports)
    /\ WF_vars(InstallReports)

(***************************************************************************)
(* Run/stop button: the slots.                                             *)
(***************************************************************************)
InitRunStop ==
    /\ config = DefaultAppConfig
    /\ doc = ToDict(DefaultAppConfig, 1, 1)
    /\ arg = EmptyDict
    /\ uuid_count = 0
    /\ op = "init"
    /\ DownloadPageConstructed
    /\ OrchestratorConstructed
    /\ resource_configs = <<>>
    /\ WidgetsConstructed
    /\ NotParsed
    /\ AppIdle

suRest == <<startup_timer, update_checker_thread, resources_with_updates,
            auto_update_downloaders, auto_update_pending, current_auto_update,
            auto_workers, resource_configs, queued, started>>

\* _set_startup_updating(is_running), called by the startup orchestrator
SetStartupUpdating ==
    /\ \E is_running \in BOOLEAN :
          /\ is_running # startup_update_in_progress
          /\ startup_update_in_progress' = is_running
    /\ Called("_set_startup_updating", "")
    /\ UNCHANGED <<cfgVars, dlPage, suRest, rsVars, cliVars, appVars>>

\* both widgets are built with the DeviceConfig of their device: DeviceCard
\* reads device_config.device_name in its constructor, BasicInfoWidget
\* creates and connects its run button only if device_config is set
DeviceConfigPresent(w) == w \in Widgets

\* DeviceCard.handle_run_stop_action / BasicInfoWidget.handle_run_stop_action
HandleRunStopAction ==
    \E w \in Widgets :
        LET decision == RunStopDecision(DeviceConfigPresent(w),
                                        startup_update_in_progress, is_busy)
        IN  /\ run_btn[w]
            /\ notice' = decision
            /\ scheduled' =
                  IF decision \in {"stop_device_tasks", "run_device_tasks"}
                  THEN scheduled \cup {Scheduled(w, decision)}
                  ELSE scheduled
            /\ widget' = w
            /\ Called("handle_run_stop_action", "")
            /\ UNCHANGED <<cfgVars, dlPage, suVars, cliVars, appVars, is_busy, run_btn,
                           task_manager_call>>

\* run_device_tasks: task_manager.run_device_all_resource_task(device_config)
RunDeviceTasks ==
    \E w \in Widgets, success \in BOOLEAN :
        /\ Scheduled(w, "run_device_tasks") \in scheduled
        /\ scheduled' = scheduled \ {Scheduled(w, "run_device_tasks")}
        /\ run_btn' = [run_btn EXCEPT ![w] = FALSE]
        /\ task_manager_call' = "run_device_all_resource_task"
        /\ is_busy' = IF success THEN TRUE ELSE is_busy
        /\ widget' = w
        /\ Called("run_device_tasks", "")
        /\ UNCHANGED <<cfgVars, dlPage, suVars, cliVars, appVars, notice>>

\* stop_device_tasks: task_manager.stop_device_processing(device_name)
StopDeviceTasks ==
    \E w \in Widgets, success \in BOOLEAN :
        /\ Scheduled(w, "stop_device_tasks") \in scheduled
        /\ scheduled' = scheduled \ {Scheduled(w, "stop_device_tasks")}
        /\ run_btn' = [run_btn EXCEPT ![w] = FALSE]
        /\ task_manager_call' = "stop_device_processing"
        /\ is_busy' = IF success THEN FALSE ELSE is_busy
        /\ widget' = w
        /\ Called("stop_device_tasks", "")
        /\ UNCHANGED <<cfgVars, dlPage, suVars, cliVars, appVars, notice>>

\* on_state_changed -> refresh_display: run_btn.setEnabled(ui_info.button_enabled)
OnStateChanged ==
    \E w \in Widgets, button_enabled \in BOOLEAN :
        /\ run_btn' = [run_btn EXCEPT ![w] = button_enabled]
        /\ widget' = w
        /\ Called("on_state_changed", "")
        /\ UNCHANGED <<cfgVars, dlPage, suVars, cliVars, appVars, is_busy, scheduled,
                       notice, task_manager_call>>

\* the device finishes or begins work on its own (queue, scheduler)
DeviceStateChanges ==
    /\ is_busy' = ~is_busy
    /\ Called("device_state", "")
    /\ UNCHANGED <<cfgVars, dlPage, suVars, cliVars, appVars, run_btn, scheduled,
                   notice, widget, task_manager_call>>

NextRunStop ==
    \/ SetStartupUpdating
    \/ HandleRunStopAction
    \/ RunDeviceTasks
    \/ StopDeviceTasks
    \/ OnStateChanged
    \/ DeviceStateChanges

SpecRunStop == InitRunStop /\ [][NextRunStop]_vars

(***************************************************************************)
(* Command line: main calls parse_arguments, then schedule_task_startup.   *)
(***************************************************************************)
DeviceOptions == {Absent, <<"all">>, <<"foo", "bar">>}

LegacyDeviceLists == {Absent, <<"all">>, <<"x">>}

CommandLines ==
    [headless : BOOLEAN, no_console : BOOLEAN, device : DeviceOptions,
     exit_on_complete : BOOLEAN, legacy_exit_on_complete : BOOLEAN,
     auto : BOOLEAN, s : LegacyDeviceLists]

InitCli ==
    /\ config = DefaultAppConfig
    /\ doc = ToDict(DefaultAppConfig, 1, 1)
    /\ arg = EmptyDict
    /\ uuid_count = 0
    /\ op = "init"
    /\ DownloadPageConstructed
    /\ OrchestratorConstructed
    /\ resource_configs = <<>>
    /\ WidgetsConstructed
    /\ argv \in CommandLines
    /\ args = NoNamespace
    /\ cli_stage = "start"
    /\ delayed_start = FALSE
    /\ AppIdle

CallParseArguments ==
    /\ cli_stage = "start"
    /\ args' = ParseArguments(argv)
    /\ cli_stage' = "parsed"
    /\ Called("parse_arguments", "")
    /\ UNCHANGED <<cfgVars, dlPage, suVars, rsVars, appVars, argv, delayed_start>>

\* schedule_task_startup(args)
ScheduleTaskStartup ==
    /\ cli_stage = "parsed"
    /\ delayed_start' = (args.device # Absent)
    /\ cli_stage' = "scheduled"
    /\ Called("schedule_task_startup", "")
    /\ UNCHANGED <<cfgVars, dlPage, suVars, rsVars, appVars, argv, args>>

NextCli ==
    \/ CallParseArguments
    \/ ScheduleTaskStartup

SpecCli == InitCli /\ [][NextCli]_vars

(***************************************************************************)
(* Accessors of the per-resource update preferences.                       *)
(***************************************************************************)
UpdateMethods == {"github", "MirrorChyan"}

Channels == {"stable", "beta"}

ResourceNames == {"r1", "r2"}

\* resource_update_methods: no entry, or an entry for r1
ResourceUpdateMethods ==
    {EmptyDict} \cup
    {"r1" :> ResourceUpdateConfig(method, channel, auto_download_update) :
        method \in UpdateMethods, channel \in Channels,
        auto_download_update \in BOOLEAN}

InitAccessors ==
    /\ \E update_method \in UpdateMethods, receive_beta_update \in BOOLEAN,
          resource_update_methods \in ResourceUpdateMethods :
          config = [DefaultAppConfig EXCEPT
                       !.update_method = update_method,
                       !.receive_beta_update = receive_beta_update,
                       !.resource_update_methods = resource_update_methods]
    /\ doc = ToDict(DefaultAppConfig, 1, 1)
    /\ arg = EmptyDict
    /\ uuid_count = 0
    /\ op = "init"
    /\ DownloadPageConstructed
    /\ OrchestratorConstructed
    /\ resource_configs = <<>>
    /\ WidgetsConstructed
    /\ NotParsed
    /\ AppIdle

Apply(fn, resource_name) ==
    /\ applied' = [fn |-> fn, resource_name |-> resource_name]
    /\ Called(fn, resource_name)
    /\ UNCHANGED <<cfgVars, dlPage, suVars, rsVars, cliVars, device_tasks, now, window, stVars>>

CallGetResourceUpdateMethod ==
    \E name \in ResourceNames :
        /\ returned' = GetResourceUpdateMethod(config, name)
        /\ Apply("get_resource_update_method", name)

CallGetResourceUpdateChannel ==
    \E name \in ResourceNames :
        /\ returned' = GetResourceUpdateChannel(config, name)
        /\ Apply("get_resource_update_channel", name)

CallGetResourceAutoDownload ==
    \E name \in ResourceNames :
        /\ returned' = GetResourceAutoDownload(config, name)
        /\ Apply("get_resource_auto_download", name)

NextAccessors ==
    \/ CallGetResourceUpdateMethod
    \/ CallGetResourceUpdateChannel
    \/ CallGetResourceAutoDownload

SpecAccessors == InitAccessors /\ [][NextAccessors]_vars

(***************************************************************************)
(* ScheduleTask.to_ui_format and ScheduleTask.from_ui_format.  The labels  *)
(* of the interface are written RunOnce, RunDaily, RunWeekly,              *)
(* DefaultScheme and Active.                                               *)
(***************************************************************************)
\* ScheduleTask.get_schedule_type_display
GetScheduleTypeDisplay(schedule_type) ==
    IF schedule_type = "once" THEN "RunOnce"
    ELSE IF schedule_type = "weekly" THEN "RunWeekly"
    ELSE "RunDaily"

\* ScheduleTask.to_ui_format
ToUiFormat(t) ==
    [schedule_type |-> GetScheduleTypeDisplay(t.schedule_type),
     time          |-> t.schedule_time,
     config_scheme |-> IF t.settings_name # "" THEN t.settings_name ELSE "DefaultScheme",
     notify        |-> t.notify,
     force_stop    |-> t.force_stop,
     enabled       |-> t.enabled]
    @@ (IF t.schedule_type = "weekly" /\ t.week_days # <<>>
        THEN "week_days" :> t.week_days ELSE EmptyDict)
    @@ (IF t.schedule_id # "" THEN "id" :> t.schedule_id ELSE EmptyDict)

\* schedule_type_map.get(label, 'daily')
ScheduleTypeOfLabel(label) ==
    IF label = "RunOnce" THEN "once"
    ELSE IF label = "RunWeekly" THEN "weekly"
    ELSE "daily"

\* ScheduleTask.from_ui_format
FromUiFormat(ui_data, device_name, resource_name, fresh_id) ==
    [device_name   |-> device_name,
     resource_name |-> resource_name,
     enabled       |-> Get(ui_data, "status", "Active") = "Active",
     schedule_time |-> Get(ui_data, "time", ""),
     schedule_type |-> ScheduleTypeOfLabel(Get(ui_data, "schedule_type", "RunDaily")),
     week_days     |-> Get(ui_data, "week_days", <<>>),
     settings_name |-> Get(ui_data, "config_scheme", "DefaultScheme"),
     notify        |-> Get(ui_data, "notify", FALSE),
     force_stop    |-> Get(ui_data, "force_stop", FALSE),
     schedule_id   |-> IF Get(ui_data, "id", "") # "" THEN ui_data.id ELSE fresh_id]

ScheduleKinds == {"once", "daily", "weekly"}

ScheduleTasks ==
    [device_name : {"d1"}, resource_name : {"r1"}, enabled : BOOLEAN,
     schedule_time : {"08:00:00", ""}, schedule_type : ScheduleKinds,
     week_days : {<<>>, <<"Mon", "Fri">>}, settings_name : {"", "s1"},
     notify : BOOLEAN, force_stop : BOOLEAN, schedule_id : {"sch-1", ""}]

InitUiFormat ==
    /\ config = DefaultAppConfig
    /\ doc = ToDict(DefaultAppConfig, 1, 1)
    /\ arg \in ScheduleTasks
    /\ uuid_count = 0
    /\ op = "init"
    /\ DownloadPageConstructed
    /\ OrchestratorConstructed
    /\ resource_configs = <<>>
    /\ WidgetsConstructed
    /\ NotParsed
    /\ AppIdle

ufRest == <<config, doc, arg, dlVars, suVars, rsVars, cliVars, device_tasks, now, window, stVars>>

\* t.to_ui_format()
CallToUiFormat ==
    /\ op = "init"
    /\ returned' = ToUiFormat(arg)
    /\ applied' = <<"to_ui_format">>
    /\ op' = "to_ui_format"
    /\ UNCHANGED <<uuid_count, ufRest>>

\* ScheduleTask.from_ui_format(t.to_ui_format(), t.device_name, t.resource_name)
CallFromUiFormat ==
    /\ op = "to_ui_format"
    /\ uuid_count' = uuid_count + 1
    /\ returned' = FromUiFormat(returned, arg.device_name, arg.resource_name,
                                Uuid(uuid_count'))
    /\ applied' = <<"to_ui_format", "from_ui_format">>
    /\ op' = "from_ui_format"
    /\ UNCHANGED ufRest

NextUiFormat ==
    \/ CallToUiFormat
    \/ CallFromUiFormat

SpecUiFormat == InitUiFormat /\ [][NextUiFormat]_vars

(***************************************************************************)
(* Schedule label of a device card and of a basic-info panel.              *)
(* A timestamp is [day, hour, minute]; day counts the days of a year that  *)
(* begins with January (31 days) and February.                             *)
(***************************************************************************)
Month(day) == IF day <= 31 THEN 1 ELSE 2

DayOfMonth(day) == IF day <= 31 THEN day ELSE day - 31

\* strftime: a number printed with two digits
Pad2(n) == IF n < 10 THEN "0" \o ToString(n) ELSE ToString(n)

\* next_run_time.strftime('%H:%M')
StrfHM(t) == Pad2(t.hour) \o ":" \o Pad2(t.minute)

\* next_run_time.strftime('%m-%d %H:%M')
StrfMDHM(t) == Pad2(Month(t.day)) \o "-" \o Pad2(DayOfMonth(t.day)) \o " " \o StrfHM(t)

\* datetime.__lt__
Earlier(a, b) ==
    \/ a.day < b.day
    \/ a.day = b.day /\ a.hour < b.hour
    \/ a.day = b.day /\ a.hour = b.hour /\ a.minute < b.minute

\* next_run is None or missing
NoNextRun == [day |-> 0, hour |-> 0, minute |-> 0]

\* task.get('status') == "Active" and task.get('next_run')
ActiveNextRuns(tasks) ==
    LET active == SelectSeq(tasks, LAMBDA task :
                      task.status = "Active" /\ task.next_run # NoNextRun)
    IN  [i \in 1..Len(active) |-> active[i].next_run]

\* max(active_next_runs)
LatestNextRun(active_next_runs) ==
    CHOOSE t \in Range(active_next_runs) :
        \A u \in Range(active_next_runs) : ~Earlier(t, u)

\* min(active_next_runs)
EarliestNextRun(active_next_runs) ==
    CHOOSE t \in Range(active_next_runs) :
        \A u \in Range(active_next_runs) : ~Earlier(u, t)

\* the text shown when the device has no active schedule
NoScheduleText(w) == IF w = "DeviceCard" THEN "NotSet" ELSE "NotEnabled"

\* DeviceCard._get_scheduled_info / BasicInfoWidget._get_scheduled_info
\* (the tooltip, the full timestamp, is left out)
GetScheduledInfo(w, tasks, today) ==
    LET active_next_runs == ActiveNextRuns(tasks)
    IN  IF active_next_runs = <<>>
        THEN [has_scheduled |-> FALSE, text |-> NoScheduleText(w)]
        ELSE LET next_run_time == EarliestNextRun(active_next_runs)
                 tomorrow == today + 1
             IN  [has_scheduled |-> TRUE,
                  text |-> IF next_run_time.day = today
                           THEN "Today " \o StrfHM(next_run_time)
                           ELSE IF next_run_time.day = tomorrow
                           THEN "Tomorrow " \o StrfHM(next_run_time)
                           ELSE StrfMDHM(next_run_time)]

MaxSchedules == 3

\* next_run of a UI-shaped task: absent, or a timestamp
NextRuns ==
    {NoNextRun,
     [day |-> 31, hour |-> 9, minute |-> 0],
     [day |-> 31, hour |-> 23, minute |-> 5],
     [day |-> 32, hour |-> 8, minute |-> 0],
     [day |-> 36, hour |-> 10, minute |-> 0]}

UiTasks == [status : {"Active", "Paused"}, next_run : NextRuns]

Days == {30, 31}

InitSchedule ==
    /\ config = DefaultAppConfig
    /\ doc = ToDict(DefaultAppConfig, 1, 1)
    /\ arg = EmptyDict
    /\ uuid_count = 0
    /\ op = "init"
    /\ DownloadPageConstructed
    /\ OrchestratorConstructed
    /\ resource_configs = <<>>
    /\ WidgetsConstructed
    /\ NotParsed
    /\ NothingCalled
    /\ window = NoWindow
    /\ SettingsIdle
    /\ device_tasks \in SeqsUpTo(UiTasks, MaxSchedules)
    /\ now \in Days

\* refresh_display of a widget: the schedule label is computed again
CallGetScheduledInfo ==
    \E w \in Widgets :
        /\ applied' = [fn |-> "_get_scheduled_info", widget |-> w]
        /\ returned' = GetScheduledInfo(w, device_tasks, now)
        /\ Called("_get_scheduled_info", "")
        /\ UNCHANGED <<cfgVars, dlPage, suVars, rsVars, cliVars, device_tasks, now, window, stVars>>

\* midnight passes
NextDay ==
    /\ now + 1 \in Days
    /\ now' = now + 1
    /\ Called("midnight", "")
    /\ UNCHANGED <<cfgVars, dlPage, suVars, rsVars, cliVars, applied, returned,
                   device_tasks, window, stVars>>

NextSchedule ==
    \/ CallGetScheduledInfo
    \/ NextDay

SpecSchedule == InitSchedule /\ [][NextSchedule]_vars

(***************************************************************************)
(* Main window geometry: stored as strings on exit, parsed on construction.*)
(***************************************************************************)
Char(s, i) == SubSeq(s, i, i)

DecimalDigits == "0123456789"

IsDigit(c) == \E d \in 1..10 : Char(DecimalDigits, d) = c

DigitValue(c) == (CHOOSE d \in 1..10 : Char(DecimalDigits, d) = c) - 1

RECURSIVE Split(_, _)
\* str.split(sep) for a separator of one character
Split(s, sep) ==
    LET at == {i \in 1..Len(s) : Char(s, i) = sep}
    IN  IF at = {} THEN <<s>>
        ELSE LET i == CHOOSE j \in at : \A k \in at : j <= k
             IN  <<SubSeq(s, 1, i - 1)>> \o Split(SubSeq(s, i + 1, Len(s)), sep)

RECURSIVE Strip(_)
\* str.strip(): blanks at both ends removed
Strip(s) ==
    IF s = "" THEN s
    ELSE IF Char(s, 1) = " " THEN Strip(SubSeq(s, 2, Len(s)))
    ELSE IF Char(s, Len(s)) = " " THEN Strip(SubSeq(s, 1, Len(s) - 1))
    ELSE s

UpperCase == "ABCDEFGHIJKLMNOPQRSTUVWXYZ"

LowerCase == "abcdefghijklmnopqrstuvwxyz"

RECURSIVE Lower(_)
\* str.lower()
Lower(s) ==
    IF s = "" THEN s
    ELSE LET c == Char(s, 1)
             up == {i \in 1..26 : Char(UpperCase, i) = c}
         IN  (IF up = {} THEN c ELSE Char(LowerCase, CHOOSE i \in up : TRUE))
             \o Lower(SubSeq(s, 2, Len(s)))

RECURSIVE DigitsValue(_)
DigitsValue(digits) ==
    IF digits = "" THEN 0
    ELSE 10 * DigitsValue(SubSeq(digits, 1, Len(digits) - 1))
         + DigitValue(Char(digits, Len(digits)))

\* int(s) that raises ValueError for every string with a sign
IntUnsigned(s) ==
    LET t == Strip(s)
    IN  IF t # "" /\ \A i \in 1..Len(t) : IsDigit(Char(t, i))
        THEN [ok |-> TRUE, value |-> DigitsValue(t)]
        ELSE [ok |-> FALSE, value |-> 0]

\* int(s): blanks around, an optional sign, decimal digits; ok is false where
\* int raises ValueError
IntOf(s) ==
    LET t == Strip(s)
        signed == t # "" /\ Char(t, 1) \in {"-", "+"}
        digits == IF signed THEN SubSeq(t, 2, Len(t)) ELSE t
    IN  IF digits # "" /\ \A i \in 1..Len(digits) : IsDigit(Char(digits, i))
        THEN [ok |-> TRUE,
              value |-> IF signed /\ Char(t, 1) = "-"
                        THEN 0 - DigitsValue(digits) ELSE DigitsValue(digits)]
        ELSE [ok |-> FALSE, value |-> 0]

\* a, b = map(int, s.split(sep)); ok is false where ValueError is raised
IntPair(s, sep) ==
    LET parts == Split(s, sep)
    IN  IF Len(parts) = 2 /\ IntOf(parts[1]).ok /\ IntOf(parts[2]).ok
        THEN [ok |-> TRUE, value |-> <<IntOf(parts[1]).value, IntOf(parts[2]).value>>]
        ELSE [ok |-> FALSE, value |-> <<0, 0>>]

\* setMinimumSize(800, 600)
MinimumSize == <<800, 600>>

\* self.resize(800, 600)
FallbackSize == <<800, 600>>

Larger(a, b) == IF a >= b THEN a ELSE b

\* QWidget.resize: the size is kept within the minimum size
Resize(size) ==
    <<Larger(size[1], MinimumSize[1]), Larger(size[2], MinimumSize[2])>>

\* MainWindow.__init__: the size the window is given
SizeFromConfig(window_size) ==
    IF window_size # "" /\ IntPair(window_size, "x").ok
    THEN Resize(IntPair(window_size, "x").value)
    ELSE Resize(FallbackSize)

\* MainWindow.__init__: whether the window is moved, and where to
MoveFromConfig(window_position) ==
    IF /\ window_position # ""
       /\ Lower(Strip(window_position)) # "center"
       /\ IntPair(window_position, ",").ok
    THEN [moved |-> TRUE, pos |-> IntPair(window_position, ",").value]
    ELSE [moved |-> FALSE, pos |-> <<0, 0>>]

\* f"{size.width()}x{size.height()}"
WindowSizeString(size) == ToString(size[1]) \o "x" \o ToString(size[2])

\* f"{pos.x()},{pos.y()}"
WindowPositionString(pos) == ToString(pos[1]) \o "," \o ToString(pos[2])

Sizes == {<<800, 600>>, <<1024, 768>>, <<1920, 600>>}

Positions == {<<100, 50>>, <<-5, -10>>, <<0, 1200>>, <<-1920, 0>>}

\* window_size as the configuration file may hold it
StoredSizes == {"800x600", "1024x768", "", "abc", "1024", "1024x", "10x20x30", " 1024 x 768 "}

\* window_position as the configuration file may hold it
StoredPositions == {"center", "CENTER", "Center", " center ", "100,50", "-5,-10", "", "a,b", "100"}

InitWindow ==
    /\ \E window_size \in StoredSizes, window_position \in StoredPositions,
          minimize_to_tray_on_close \in BOOLEAN :
          config = [DefaultAppConfig EXCEPT
                       !.window_size = window_size,
                       !.window_position = window_position,
                       !.minimize_to_tray_on_close = minimize_to_tray_on_close]
    /\ doc = ToDict(DefaultAppConfig, 1, 1)
    /\ arg = EmptyDict
    /\ uuid_count = 0
    /\ op = "init"
    /\ DownloadPageConstructed
    /\ OrchestratorConstructed
    /\ resource_configs = <<>>
    /\ WidgetsConstructed
    /\ NotParsed
    /\ NothingCalled
    /\ NoSchedules
    /\ SettingsIdle
    /\ window = NoWindow

winRest == <<arg, uuid_count, dlPage, suVars, rsVars, cliVars, applied, returned,
             device_tasks, now, stVars>>

\* MainWindow.__init__, at the first start and at every start after an exit
ConstructMainWindow ==
    /\ window.stage \in {"none", "quit"}
    /\ LET move == MoveFromConfig(config.window_position)
       IN  \E placed \in Positions :
               window' = [stage |-> "open",
                          size |-> SizeFromConfig(config.window_size),
                          pos |-> IF move.moved THEN move.pos ELSE placed,
                          moved |-> move.moved]
    /\ Called("MainWindow.__init__", "")
    /\ UNCHANGED <<config, doc, winRest>>

\* the user resizes and moves the window
UserChangesGeometry ==
    /\ window.stage = "open"
    /\ \E size \in Sizes, pos \in Positions :
          window' = [window EXCEPT !.size = Resize(size), !.pos = pos]
    /\ Called("resizeEvent", "")
    /\ UNCHANGED <<config, doc, winRest>>

\* force_quit and closeEvent that leave the configuration as it is
StoreNothing == UNCHANGED <<config, doc>>

\* what force_quit and closeEvent do to the configuration
StoreGeometry ==
    /\ config' = [config EXCEPT
                     !.window_size = WindowSizeString(window.size),
                     !.window_position = WindowPositionString(window.pos)]
    /\ SaveAllConfigs(config')

winKept == <<arg, uuid_count, dlPage, suVars, rsVars, cliVars, returned,
             device_tasks, now, stVars>>

\* MainWindow.force_quit (tray menu); applied lists its calls in their order
ForceQuit ==
    /\ window.stage \in {"open", "hidden"}
    /\ StoreGeometry
    /\ window' = [window EXCEPT !.stage = "quit"]
    /\ applied' = <<"tray_icon.hide", "save_all_configs", "QCoreApplication.quit">>
    /\ Called("force_quit", "")
    /\ UNCHANGED winKept

\* MainWindow.closeEvent; applied lists its calls in their order
CloseEvent ==
    /\ window.stage = "open"
    /\ IF config.minimize_to_tray_on_close
       THEN /\ window' = [window EXCEPT !.stage = "hidden"]
            /\ applied' = <<"event.ignore", "hide", "tray_icon.showMessage">>
            /\ UNCHANGED <<config, doc>>
       ELSE /\ StoreGeometry
            /\ window' = [window EXCEPT !.stage = "quit"]
            /\ applied' = <<"save_all_configs", "tray_icon.hide", "event.accept",
                            "QCoreApplication.quit">>
    /\ Called("closeEvent", "")
    /\ UNCHANGED winKept

\* MainWindow.show_normal (tray icon)
ShowNormal ==
    /\ window.stage = "hidden"
    /\ window' = [window EXCEPT !.stage = "open"]
    /\ Called("show_normal", "")
    /\ UNCHANGED <<config, doc, winRest>>

NextWindow ==
    \/ ConstructMainWindow
    \/ UserChangesGeometry
    \/ ForceQuit
    \/ CloseEvent
    \/ ShowNormal

SpecWindow == InitWindow /\ [][NextWindow]_vars

(***************************************************************************)
(* Settings page: update of the application itself.                        *)
(***************************************************************************)
\* os_name of check_app_update, "" where ValueError is raised
OsName(system) ==
    LET sys == Lower(system)
    IN  IF sys = "windows" THEN "windows"
        ELSE IF sys = "linux" THEN "linux"
        ELSE IF sys = "darwin" THEN "macos"
        ELSE ""

\* ext of check_app_update
Ext(system) == IF Lower(system) = "windows" THEN "zip" ELSE "tar.gz"

\* arch_name of check_app_update, "" where ValueError is raised
ArchName(machine) ==
    LET mach == Lower(machine)
    IN  IF mach \in {"amd64", "x86_64"} THEN "x64"
        ELSE IF mach \in {"arm64", "aarch64"} THEN "arm64"
        ELSE ""

\* the target asset name, were every unknown architecture taken for x64
TargetAssetNameAnyArch(system, machine) ==
    LET arch_name == IF ArchName(machine) = "" THEN "x64" ELSE ArchName(machine)
    IN  IF OsName(system) = ""
        THEN [ok |-> FALSE, name |-> ""]
        ELSE [ok |-> TRUE,
              name |-> "MFWPH_" \o OsName(system) \o "-" \o arch_name \o "." \o Ext(system)]

\* check_app_update, step 1: ok is false where ValueError is raised
TargetAssetName(system, machine) ==
    IF OsName(system) = "" \/ ArchName(machine) = ""
    THEN [ok |-> FALSE, name |-> ""]
    ELSE [ok |-> TRUE,
          name |-> "MFWPH_" \o OsName(system) \o "-" \o ArchName(machine)
                   \o "." \o Ext(system)]

IsRunning(thread) == thread \in {"running", "reported"}

\* SettingsPage.handle_check_failed
CheckFailed(page) ==
    [page EXCEPT !.check_button = TRUE, !.update_button_visible = FALSE,
                 !.notice = "check_failed"]

\* what platform.system() and platform.machine() report
Systems == {"Windows", "Linux", "Darwin", "FreeBSD"}

Machines == {"AMD64", "x86_64", "arm64", "aarch64", "i386"}

InitSelfUpdate ==
    /\ config = DefaultAppConfig
    /\ doc = ToDict(DefaultAppConfig, 1, 1)
    /\ arg = EmptyDict
    /\ uuid_count = 0
    /\ op = "init"
    /\ DownloadPageConstructed
    /\ OrchestratorConstructed
    /\ resource_configs = <<>>
    /\ WidgetsConstructed
    /\ NotParsed
    /\ NothingCalled
    /\ NoSchedules
    /\ window = NoWindow
    /\ host \in [system : Systems, machine : Machines]
    /\ settings_page = SettingsPageConstructed
    /\ folder = NoFolder
    /\ temp_dir = NoTempDir
    /\ threads = NoThreads
    /\ ui_effect = NoEffect
    /\ PagesIdle

spRest == <<cfgVars, dlPage, suVars, rsVars, cliVars, applied, returned,
            device_tasks, now, window, host, folder, temp_dir, threads, ui_effect,
            pgVars>>

\* SettingsPage.check_app_update (the check button is clicked)
CheckAppUpdate ==
    /\ settings_page.check_button
    /\ settings_page' =
          IF \/ IsRunning(settings_page.update_checker_thread)
             \/ IsRunning(settings_page.download_thread)
          THEN [settings_page EXCEPT !.notice = "return"]
          ELSE LET target == TargetAssetName(host.system, host.machine)
                   page == [settings_page EXCEPT !.check_button = FALSE,
                                                 !.update_button_visible = FALSE]
               IN  IF ~target.ok
                   THEN CheckFailed(page)
                   ELSE [page EXCEPT !.update_checker_thread = "running",
                                     !.target_asset_name = target.name,
                                     !.notice = "checking"]
    /\ Called("check_app_update", "")
    /\ UNCHANGED spRest

\* SettingsPage.handle_update_found
AppUpdateFound ==
    /\ settings_page.update_checker_thread = "running"
    /\ settings_page' = [settings_page EXCEPT
                            !.check_button = TRUE, !.app_update_info = TRUE,
                            !.update_button_visible = TRUE, !.notice = "update_found",
                            !.update_checker_thread = "reported"]
    /\ Called("handle_update_found", "")
    /\ UNCHANGED spRest

\* SettingsPage.handle_update_not_found
AppUpdateNotFound ==
    /\ settings_page.update_checker_thread = "running"
    /\ settings_page' = [settings_page EXCEPT
                            !.check_button = TRUE, !.update_button_visible = FALSE,
                            !.notice = "update_not_found",
                            !.update_checker_thread = "reported"]
    /\ Called("handle_update_not_found", "")
    /\ UNCHANGED spRest

\* SettingsPage.handle_check_failed, called for the checker's check_failed
AppCheckFailed ==
    /\ settings_page.update_checker_thread = "running"
    /\ settings_page' = [CheckFailed(settings_page) EXCEPT
                            !.update_checker_thread = "reported"]
    /\ Called("handle_check_failed", "")
    /\ UNCHANGED spRest

\* the checker thread ends
AppCheckerFinished ==
    /\ settings_page.update_checker_thread = "reported"
    /\ settings_page' = [settings_page EXCEPT !.update_checker_thread = "finished"]
    /\ Called("UpdateChecker.finished", "")
    /\ UNCHANGED spRest

\* SettingsPage.start_update (the update button is clicked)
StartAppUpdate ==
    /\ settings_page.update_button_visible
    /\ settings_page.update_button
    /\ settings_page' =
          IF ~settings_page.app_update_info
          THEN [settings_page EXCEPT !.notice = "no_update_info"]
          ELSE IF IsRunning(settings_page.download_thread)
          THEN [settings_page EXCEPT !.notice = "download_in_progress"]
          ELSE [settings_page EXCEPT !.update_button = FALSE,
                                     !.download_thread = "running",
                                     !.notice = "downloading"]
    /\ Called("start_update", "")
    /\ UNCHANGED spRest

\* SettingsPage.handle_download_completed
AppDownloadCompleted ==
    /\ settings_page.download_thread = "running"
    /\ settings_page' = [settings_page EXCEPT !.update_button = TRUE,
                                              !.download_thread = "reported",
                                              !.notice = "installing"]
    /\ Called("handle_download_completed", "")
    /\ UNCHANGED spRest

\* SettingsPage.handle_download_failed
AppDownloadFailed ==
    /\ settings_page.download_thread = "running"
    /\ settings_page' = [settings_page EXCEPT !.update_button = TRUE,
                                              !.download_thread = "reported",
                                              !.notice = "download_failed"]
    /\ Called("handle_download_failed", "")
    /\ UNCHANGED spRest

\* the downloader thread ends
AppDownloaderFinished ==
    /\ settings_page.download_thread = "reported"
    /\ settings_page' = [settings_page EXCEPT !.download_thread = "finished"]
    /\ Called("UpdateDownloader.finished", "")
    /\ UNCHANGED spRest

NextSelfUpdate ==
    \/ CheckAppUpdate
    \/ AppUpdateFound
    \/ AppUpdateNotFound
    \/ AppCheckFailed
    \/ AppCheckerFinished
    \/ StartAppUpdate
    \/ AppDownloadCompleted
    \/ AppDownloadFailed
    \/ AppDownloaderFinished

SpecSelfUpdate == InitSelfUpdate /\ [][NextSelfUpdate]_vars

(***************************************************************************)
(* Cleaning of the log folders and of stale PyInstaller folders.           *)
(* A folder is [files, dirs]: files maps a file name to whether os.remove  *)
(* succeeds for it, dirs maps a directory name to its files and to whether *)
(* the directory is held by another process.                               *)
(***************************************************************************)
Without(d, k) == [n \in DOMAIN d \ {k} |-> d[n]]

\* the order in which os.walk and os.listdir yield names
ListingOrder == <<"a.log", "b.log", "c.log", "_MEI1", "_MEI2", "_MEI3", "_MEI.txt", "pip-1">>

Listing(d) == SelectSeq(ListingOrder, LAMBDA n : n \in DOMAIN d)

RECURSIVE RemoveEachUntilFailure(_, _)
\* the loop over the files without its try/except: the first OSError ends it
RemoveEachUntilFailure(names, acc) ==
    IF names = <<>> THEN acc
    ELSE IF acc.files[Head(names)]
    THEN RemoveEachUntilFailure(Tail(names),
             [acc EXCEPT !.files = Without(@, Head(names)), !.removed = TRUE])
    ELSE [acc EXCEPT !.raised = TRUE]

RECURSIVE RemoveEach(_, _)
\* for file in files: try: os.remove(...); removed = True  except OSError: pass
RemoveEach(names, acc) ==
    IF names = <<>> THEN acc
    ELSE IF acc.files[Head(names)]
    THEN RemoveEach(Tail(names),
             [acc EXCEPT !.files = Without(@, Head(names)), !.removed = TRUE])
    ELSE RemoveEach(Tail(names), acc)

RemoveFiles(files) ==
    RemoveEach(Listing(files), [files |-> files, removed |-> FALSE, raised |-> FALSE])

\* SettingsPage._clean_directory: os.walk(path, topdown=False), the files of
\* every directory, then os.rmdir of its subdirectories
CleanDirectory(f) ==
    LET sub == [d \in DOMAIN f.dirs |-> RemoveFiles(f.dirs[d].files)]
        root == RemoveFiles(f.files)
        rmdir_fails == {d \in DOMAIN f.dirs :
                           DOMAIN sub[d].files # {} \/ f.dirs[d].busy}
    IN  [folder |-> [files |-> root.files,
                     dirs |-> [d \in rmdir_fails |->
                                  [f.dirs[d] EXCEPT !.files = sub[d].files]]],
         removed |-> root.removed \/ \E d \in DOMAIN f.dirs : sub[d].removed,
         raised |-> root.raised \/ \E d \in DOMAIN f.dirs : sub[d].raised]

\* item_name.startswith('_MEI')
StartsWithMEI(name) == Len(name) >= 4 /\ SubSeq(name, 1, 4) = "_MEI"

\* sys._MEIPASS
CurrentMEI == "_MEI1"

RECURSIVE RemoveTrees(_, _)
\* the loop of clean_up_old_pyinstaller_temps over os.listdir(temp_dir)
RemoveTrees(names, items) ==
    IF names = <<>> THEN items
    ELSE LET item_name == Head(names)
         IN  IF /\ StartsWithMEI(item_name)
                /\ items[item_name].is_dir
                /\ item_name # CurrentMEI
                /\ items[item_name].deletable
             THEN RemoveTrees(Tail(names), Without(items, item_name))
             ELSE RemoveTrees(Tail(names), items)

\* clean_up_old_pyinstaller_temps
CleanUpOldPyinstallerTemps(t) ==
    IF ~t.frozen \/ ~t.listable THEN t
    ELSE [t EXCEPT !.items = RemoveTrees(Listing(t.items), t.items)]

FileSets(names) == UNION {[S -> BOOLEAN] : S \in SUBSET names}

Folders ==
    [files : FileSets({"a.log", "b.log"}),
     dirs : UNION {[S -> [files : FileSets({"c.log"}), busy : BOOLEAN]] :
                      S \in SUBSET {"d1", "d2"}}]

TempItems ==
    {i1 @@ i2 @@ i3 @@ ("_MEI1" :> [is_dir |-> TRUE, deletable |-> FALSE]) :
        i1 \in {<<>>} \cup {"_MEI2" :> [is_dir |-> TRUE, deletable |-> b] : b \in BOOLEAN},
        i2 \in {<<>>} \cup {"_MEI3" :> [is_dir |-> TRUE, deletable |-> b] : b \in BOOLEAN},
        i3 \in {<<>>, "_MEI.txt" :> [is_dir |-> FALSE, deletable |-> TRUE],
                "pip-1" :> [is_dir |-> TRUE, deletable |-> TRUE]}}

TempDirs == [frozen : BOOLEAN, listable : BOOLEAN, items : TempItems]

InitClean ==
    /\ config = DefaultAppConfig
    /\ doc = ToDict(DefaultAppConfig, 1, 1)
    /\ arg = EmptyDict
    /\ uuid_count = 0
    /\ op = "init"
    /\ DownloadPageConstructed
    /\ OrchestratorConstructed
    /\ resource_configs = <<>>
    /\ WidgetsConstructed
    /\ NotParsed
    /\ NoSchedules
    /\ window = NoWindow
    /\ host = NoHost
    /\ settings_page = SettingsPageConstructed
    /\ threads = NoThreads
    /\ ui_effect = NoEffect
    /\ PagesIdle
    /\ NothingCalled
    /\ \/ folder \in Folders /\ temp_dir = [NoTempDir EXCEPT !.items = <<>>]
       \/ folder = NoFolder /\ temp_dir \in TempDirs

clRest == <<cfgVars, dlPage, suVars, rsVars, cliVars, device_tasks, now, window,
            host, threads, ui_effect, pgVars>>

\* SettingsPage._confirm_and_clear_folder (clear_log_folder, clear_debug_folder),
\* the user having confirmed; temp_dir.items is empty in the behaviours that
\* clean a log folder
ConfirmAndClearFolder ==
    LET cleaned == CleanDirectory(folder)
    IN  /\ temp_dir.items = <<>>
        /\ folder' = cleaned.folder
        /\ applied' = [fn |-> "_clean_directory"]
        /\ returned' = [removed_any |-> cleaned.removed, raised |-> cleaned.raised]
        /\ settings_page' = [settings_page EXCEPT !.notice =
                                IF cleaned.removed THEN "cleared" ELSE "already_empty"]
        /\ Called("_confirm_and_clear_folder", "")
        /\ UNCHANGED <<clRest, temp_dir>>

\* another process writes a log file or lets go of one
FolderChanges ==
    /\ temp_dir.items = <<>>
    /\ op = "_confirm_and_clear_folder"
    /\ \E f \in Folders : f # folder /\ folder' = f
    /\ Called("log_written", "")
    /\ UNCHANGED <<clRest, temp_dir, applied, returned, settings_page>>

\* clean_up_old_pyinstaller_temps, called at program start
CallCleanUpOldPyinstallerTemps ==
    /\ temp_dir.items # <<>>
    /\ op # "clean_up_old_pyinstaller_temps"
    /\ temp_dir' = CleanUpOldPyinstallerTemps(temp_dir)
    /\ applied' = [fn |-> "clean_up_old_pyinstaller_temps"]
    /\ returned' = [removed_any |-> temp_dir' # temp_dir, raised |-> FALSE]
    /\ Called("clean_up_old_pyinstaller_temps", "")
    /\ UNCHANGED <<clRest, folder, settings_page>>

NextClean ==
    \/ ConfirmAndClearFolder
    \/ FolderChanges
    \/ CallCleanUpOldPyinstallerTemps

SpecClean == InitClean /\ [][NextClean]_vars

(***************************************************************************)
(* Worker threads: GitInstallerThread and LogExportWorker.  A step of a    *)
(* worker runs on its own thread; a signal it emits is queued and its slot *)
(* runs later on the interface thread.  ui_effect records the last call of *)
(* an interface service or access to interface-owned state: which one, on  *)
(* which thread, and what caused it.                                       *)
(***************************************************************************)
MaxExportFiles == 2

Emit(t, from, name) == [t EXCEPT !.signals = Append(@, [from |-> from, name |-> name])]

Effect(service, thread, cause) == [service |-> service, thread |-> thread, cause |-> cause]

InitWorkers ==
    /\ config = DefaultAppConfig
    /\ doc = ToDict(DefaultAppConfig, 1, 1)
    /\ arg = EmptyDict
    /\ uuid_count = 0
    /\ op = "init"
    /\ DownloadPageConstructed
    /\ OrchestratorConstructed
    /\ resource_configs = <<>>
    /\ WidgetsConstructed
    /\ NotParsed
    /\ AppIdle

wkRest == <<cfgVars, dlPage, rsVars, cliVars, applied, returned, device_tasks, now,
            window, host, settings_page, folder, temp_dir,
            startup_update_in_progress, startup_timer, update_checker_thread,
            resources_with_updates, auto_update_downloaders, auto_update_pending,
            current_auto_update, auto_workers, queued, started, pgVars>>

\* DownloadPage.add_new_resource, with a valid repository address
AddNewResource ==
    /\ threads.add_btn
    /\ threads.git # "done"
    /\ IF threads.git \in {"started", "cloning", "api"}
       THEN /\ ui_effect' = Effect("notification_manager.show_warning", "interface", "user")
            /\ UNCHANGED threads
       ELSE /\ threads' = [threads EXCEPT !.add_btn = FALSE, !.git = "started"]
            /\ ui_effect' = Effect("add_btn.setEnabled", "interface", "user")
    /\ Called("add_new_resource", "")
    /\ UNCHANGED <<wkRest, resource_configs>>

\* GitInstallerThread.run up to the clone or the download
GitInstallerRun ==
    /\ threads.git = "started"
    /\ \E final_path_exists \in BOOLEAN, git_found \in BOOLEAN :
          IF final_path_exists
          THEN /\ threads' = [Emit(threads, "git", "install_failed") EXCEPT !.git = "done"]
               /\ UNCHANGED ui_effect
          ELSE IF git_found
          THEN /\ threads' = [Emit(threads, "git", "progress_updated") EXCEPT !.git = "cloning"]
               /\ UNCHANGED ui_effect
          ELSE /\ threads' = [Emit(threads, "git", "progress_updated") EXCEPT !.git = "api"]
               /\ ui_effect' = Effect("notification_manager.show_info",
                                      "GitInstallerThread", "direct call")
    /\ Called("GitInstallerThread.run", "")
    /\ UNCHANGED <<wkRest, resource_configs>>

\* GitInstallerThread.run: git.Repo.clone_from, then the result signal
GitInstallerClone ==
    /\ threads.git = "cloning"
    /\ \E name \in {"install_succeeded", "install_failed"} :
          threads' = [Emit(threads, "git", name) EXCEPT !.git = "done"]
    /\ Called("GitInstallerThread.run", "")
    /\ UNCHANGED <<wkRest, resource_configs, ui_effect>>

\* GitInstallerThread._download_zip_from_github, then the result signal
GitInstallerDownloadZip ==
    /\ threads.git = "api"
    /\ ui_effect' = Effect("global_config.app_config.github_token",
                           "GitInstallerThread", "direct read")
    /\ \E name \in {"install_succeeded", "install_failed"} :
          threads' = [Emit(threads, "git", name) EXCEPT !.git = "done"]
    /\ Called("GitInstallerThread._download_zip_from_github", "")
    /\ UNCHANGED <<wkRest, resource_configs>>

Delivered(from, name) ==
    /\ threads.signals # <<>>
    /\ Head(threads.signals) = [from |-> from, name |-> name]

\* progress_updated of the GitInstallerThread is connected to no slot
GitProgressUpdated ==
    /\ Delivered("git", "progress_updated")
    /\ threads' = [threads EXCEPT !.signals = Tail(@)]
    /\ Called("progress_updated", "")
    /\ UNCHANGED <<wkRest, resource_configs, ui_effect>>

\* DownloadPage._handle_add_succeeded
AddSucceeded ==
    /\ Delivered("git", "install_succeeded")
    /\ threads' = [threads EXCEPT !.signals = Tail(@), !.add_btn = TRUE,
                                  !.git = "finished"]
    /\ ui_effect' = Effect("notification_manager.show_success", "interface",
                           "install_succeeded")
    /\ \E scan \in DirectoryScans : resource_configs' = scan
    /\ Called("_handle_add_succeeded", "")
    /\ UNCHANGED wkRest

\* DownloadPage._handle_add_failed
AddFailed ==
    /\ Delivered("git", "install_failed")
    /\ threads' = [threads EXCEPT !.signals = Tail(@), !.add_btn = TRUE,
                                  !.git = "finished"]
    /\ ui_effect' = Effect("notification_manager.show_error", "interface",
                           "install_failed")
    /\ Called("_handle_add_failed", "")
    /\ UNCHANGED <<wkRest, resource_configs>>

\* SettingsPage.start_log_export (export_logs, export_all_logs).  The event
\* loop runs the slots of the signals a finished worker posted before it
\* handles a later click.
StartLogExport ==
    /\ threads.export # "done"
    /\ \E folders_exist \in BOOLEAN :
          IF threads.export \in {"started", "zipping"}
          THEN /\ ui_effect' = Effect("notification_manager.show_warning", "interface", "user")
               /\ UNCHANGED threads
          ELSE IF ~folders_exist
          THEN /\ ui_effect' = Effect("notification_manager.show_warning", "interface", "user")
               /\ UNCHANGED threads
          ELSE /\ ui_effect' = Effect("notification_manager.show_progress", "interface", "user")
               /\ threads' = [threads EXCEPT !.export = "started"]
    /\ Called("start_log_export", "")
    /\ UNCHANGED <<wkRest, resource_configs>>

\* LogExportWorker.run: the scan of the two folders
LogExportScan ==
    /\ threads.export = "started"
    /\ \E total_files \in 0..MaxExportFiles :
          threads' = IF total_files = 0
                     THEN [Emit(threads, "export", "error") EXCEPT !.export = "done"]
                     ELSE [threads EXCEPT !.export = "zipping", !.left = total_files]
    /\ Called("LogExportWorker.run", "")
    /\ UNCHANGED <<wkRest, resource_configs, ui_effect>>

\* LogExportWorker.run: one file is written to the archive, or zipf.write raises
LogExportWrite ==
    /\ threads.export = "zipping"
    /\ threads.left > 0
    /\ \E written \in BOOLEAN :
          threads' = IF written
                     THEN [Emit(threads, "export", "progress") EXCEPT !.left = @ - 1]
                     ELSE [Emit(threads, "export", "error") EXCEPT
                              !.export = "done", !.left = 0]
    /\ Called("LogExportWorker.run", "")
    /\ UNCHANGED <<wkRest, resource_configs, ui_effect>>

\* LogExportWorker.run: the source files are deleted, finished is emitted
LogExportCleanup ==
    /\ threads.export = "zipping"
    /\ threads.left = 0
    /\ threads' = [Emit(Emit(threads, "export", "progress"), "export", "finished")
                      EXCEPT !.export = "done"]
    /\ Called("LogExportWorker.run", "")
    /\ UNCHANGED <<wkRest, resource_configs, ui_effect>>

\* SettingsPage.update_export_progress
UpdateExportProgress ==
    /\ Delivered("export", "progress")
    /\ threads' = [threads EXCEPT !.signals = Tail(@)]
    /\ ui_effect' = Effect("notification_manager.update_progress", "interface", "progress")
    /\ Called("update_export_progress", "")
    /\ UNCHANGED <<wkRest, resource_configs>>

\* SettingsPage.on_export_finished
OnExportFinished ==
    /\ Delivered("export", "finished")
    /\ threads' = [threads EXCEPT !.signals = Tail(@), !.export = "none"]
    /\ ui_effect' = Effect("notification_manager.close_progress", "interface", "finished")
    /\ Called("on_export_finished", "")
    /\ UNCHANGED <<wkRest, resource_configs>>

\* SettingsPage.on_export_error
OnExportError ==
    /\ Delivered("export", "error")
    /\ threads' = [threads EXCEPT !.signals = Tail(@), !.export = "none"]
    /\ ui_effect' = Effect("notification_manager.show_error", "interface", "error")
    /\ Called("on_export_error", "")
    /\ UNCHANGED <<wkRest, resource_configs>>

NextWorkers ==
    \/ AddNewResource
    \/ GitInstallerRun
    \/ GitInstallerClone
    \/ GitInstallerDownloadZip
    \/ GitProgressUpdated
    \/ AddSucceeded
    \/ AddFailed
    \/ StartLogExport
    \/ LogExportScan
    \/ LogExportWrite
    \/ LogExportCleanup
    \/ UpdateExportProgress
    \/ OnExportFinished
    \/ OnExportError

SpecWorkers == InitWorkers /\ [][NextWorkers]_vars

(***************************************************************************)
(* Main window: sidebar, content area and navigation (main_window.py).     *)
(* A page of the content area is <<"page", name>> or <<"device", name>>.   *)
(* AddDeviceDialog and NavigationButton are not part of the sources: the   *)
(* dialog appends a device, edits one in place or removes one and emits    *)
(* delete_devices_signal; the tooltip of a button is the device name and a *)
(* new button is unchecked.                                                *)
(***************************************************************************)
MaxDevices == 3    \* most devices of the configuration

DeviceNames == {"d1", "d2", "d3"}

StaticPages == {"home", "scheduled", "download", "settings"}

\* the lists of devices with pairwise distinct names
DeviceLists ==
    {l \in UNION {[1..n -> DeviceNames] : n \in 0..MaxDevices} :
        \A i, j \in DOMAIN l : l[i] = l[j] => i = j}

DeviceNamed(device_name) == DeviceFromData([device_name |-> device_name])

DevicesOf(c) == [i \in 1..Len(c.devices) |-> c.devices[i].device_name]

WithDevices(c, names) ==
    [c EXCEPT !.devices = [i \in 1..Len(names) |->
        IF \E j \in 1..Len(c.devices) : c.devices[j].device_name = names[i]
        THEN c.devices[CHOOSE j \in 1..Len(c.devices) :
                           c.devices[j].device_name = names[i]]
        ELSE DeviceNamed(names[i])]]

WithoutName(names, device_name) ==
    SelectSeq(names, LAMBDA n : n # device_name)

Renamed(names, old, new) ==
    [i \in 1..Len(names) |-> IF names[i] = old THEN new ELSE names[i]]

\* f"{device.device_name}_{i}", i counted from 0
ButtonId(device_name, i) == device_name \o "_" \o ToString(i)

\* MainWindow.update_button_states, for the device buttons
UpdateButtonStates(sh) ==
    [sh EXCEPT !.buttons = [i \in 1..Len(sh.buttons) |->
        [sh.buttons[i] EXCEPT
            !.checked = /\ sh.current_page = None
                        /\ sh.buttons[i].device_btn_id = sh.current_button_id]]]

\* MainWindow.load_devices
LoadDevices(sh, devices) ==
    [sh EXCEPT
        !.buttons = [i \in 1..Len(devices) |->
                        [device_btn_id |-> ButtonId(devices[i], i - 1),
                         toolTip |-> devices[i],
                         checked |-> FALSE]],
        !.device_pages = @ \cup Range(devices)]

KeepContent(content) == content

\* MainWindow.clear_content
ClearContent(content) == {}

\* MainWindow.show_page
ShowPage(sh, page_name) ==
    LET selected == [sh EXCEPT !.current_page = page_name,
                               !.current_device = None,
                               !.current_button_id = None]
        cleared == [UpdateButtonStates(selected) EXCEPT
                        !.content = ClearContent(@)]
    IN  IF page_name \in StaticPages
        THEN [cleared EXCEPT !.content = @ \cup {<<"page", page_name>>}]
        ELSE cleared

\* MainWindow.show_device_page
ShowDevicePage(sh, device_name, button_id) ==
    LET selected == [sh EXCEPT !.current_page = None,
                               !.current_device = device_name,
                               !.current_button_id = button_id]
        cleared == [UpdateButtonStates(selected) EXCEPT
                        !.content = ClearContent(@)]
    IN  [cleared EXCEPT !.device_pages = @ \cup {device_name},
                        !.content = @ \cup {<<"device", device_name>>}]

\* the buttons whose tooltip is the name, in the order of the layout
ButtonsNamed(sh, device_name) ==
    SelectSeq(sh.buttons, LAMBDA b : b.toolTip = device_name)

\* MainWindow.show_device_page_by_name
ShowDevicePageByName(sh, device_name) ==
    IF ButtonsNamed(sh, device_name) # <<>>
    THEN ShowDevicePage(sh, device_name,
                        ButtonsNamed(sh, device_name)[1].device_btn_id)
    ELSE ShowPage(sh, "home")

\* MainWindow.on_device_deleted (refresh_device_list; the home page reloads
\* its cards)
OnDeviceDeleted(sh, devices) == LoadDevices(sh, devices)

\* MainWindow.show_previous_device_or_home
ShowPreviousDeviceOrHome(sh, devices, deleted_device_name) ==
    LET dropped == [sh EXCEPT !.device_pages = @ \ {deleted_device_name}]
        refreshed == LoadDevices(dropped, devices)
    IN  IF devices # <<>>
        THEN ShowDevicePage(refreshed, devices[1], ButtonId(devices[1], 0))
        ELSE ShowPage(refreshed, "home")

\* MainWindow.__init__: load_devices(), show_page("home")
MainWindowConstructed(devices) ==
    ShowPage(LoadDevices([current_page |-> "home", current_device |-> None,
                          current_button_id |-> None, content |-> {},
                          buttons |-> <<>>, device_pages |-> {}], devices),
             "home")

InitShell ==
    /\ \E names \in DeviceLists :
          /\ config = WithDevices(DefaultAppConfig, names)
          /\ shell = MainWindowConstructed(names)
    /\ doc = ToDict(DefaultAppConfig, 1, 1)
    /\ arg = EmptyDict
    /\ uuid_count = 0
    /\ op = "init"
    /\ DownloadPageConstructed
    /\ OrchestratorConstructed
    /\ resource_configs = <<>>
    /\ WidgetsConstructed
    /\ NotParsed
    /\ NothingCalled
    /\ NoSchedules
    /\ window = NoWindow
    /\ host = NoHost
    /\ settings_page = SettingsPageConstructed
    /\ folder = NoFolder
    /\ temp_dir = NoTempDir
    /\ threads = NoThreads
    /\ ui_effect = NoEffect
    /\ panel = <<>>
    /\ export_run = <<>>
    /\ combat = <<>>

shRest == <<doc, uuid_count, dlVars, suVars, rsVars, cliVars, applied, returned,
            device_tasks, now, window, host, settings_page, folder, temp_dir,
            threads, ui_effect, panel, export_run, combat>>

\* a static button of the sidebar is clicked: show_page(name)
ClickStaticButton ==
    \E page_name \in StaticPages :
        /\ shell' = ShowPage(shell, page_name)
        /\ op' = "show_page"
        /\ arg' = page_name
        /\ UNCHANGED <<config, shRest>>

\* a device button of the sidebar is clicked: the lambda connected in
\* load_devices calls show_device_page with the name and id of the button
ClickDeviceButton ==
    \E i \in 1..Len(shell.buttons) :
        /\ shell' = ShowDevicePage(shell, shell.buttons[i].toolTip,
                                   shell.buttons[i].device_btn_id)
        /\ op' = "show_device_page"
        /\ arg' = shell.buttons[i].toolTip
        /\ UNCHANGED <<config, shRest>>

\* DeviceCard: main_window.show_device_page_by_name(self.device_name)
CallShowDevicePageByName ==
    \E device_name \in DeviceNames :
        /\ shell' = ShowDevicePageByName(shell, device_name)
        /\ op' = "show_device_page_by_name"
        /\ arg' = device_name
        /\ UNCHANGED <<config, shRest>>

\* MainWindow.open_add_device_dialog: the dialog is cancelled, or appends a
\* device and is accepted, or removes a device, emits delete_devices_signal
\* (on_device_deleted runs) and is closed
OpenAddDeviceDialog ==
    /\ op' = "open_add_device_dialog"
    /\ \/ /\ arg' = "rejected"
          /\ shell' = UpdateButtonStates(shell)
          /\ UNCHANGED config
       \/ \E device_name \in DeviceNames \ Range(DevicesOf(config)) :
             LET names == Append(DevicesOf(config), device_name)
             IN  /\ Len(names) <= MaxDevices
                 /\ arg' = "added"
                 /\ config' = WithDevices(config, names)
                 /\ shell' = UpdateButtonStates(LoadDevices(shell, names))
       \/ \E device_name \in Range(DevicesOf(config)), result \in BOOLEAN :
             LET names == WithoutName(DevicesOf(config), device_name)
                 deleted == OnDeviceDeleted(shell, names)
             IN  /\ arg' = "deleted"
                 /\ config' = WithDevices(config, names)
                 /\ shell' = UpdateButtonStates(
                                 IF result THEN LoadDevices(deleted, names)
                                 ELSE deleted)
    /\ UNCHANGED shRest

\* BasicInfoWidget.open_settings_dialog of the panel of the device page that
\* is shown: the dialog keeps the device, renames it or removes it
OpenSettingsDialog ==
    /\ shell.current_page = None
    /\ op' = "open_settings_dialog"
    /\ LET original_device_name == shell.current_device
           names == DevicesOf(config)
       IN  \E outcome \in {"kept", "deleted"} \cup
                          (DeviceNames \ Range(names)) :
              LET after == IF outcome = "kept" THEN names
                           ELSE IF outcome = "deleted"
                           THEN WithoutName(names, original_device_name)
                           ELSE Renamed(names, original_device_name, outcome)
              IN  /\ arg' = outcome
                  /\ config' = WithDevices(config, after)
                  /\ shell' = IF original_device_name \in Range(after)
                              THEN shell
                              ELSE ShowPreviousDeviceOrHome(
                                       OnDeviceDeleted(shell, after), after,
                                       original_device_name)
    /\ UNCHANGED shRest

NextShell ==
    \/ ClickStaticButton
    \/ ClickDeviceButton
    \/ CallShowDevicePageByName
    \/ OpenAddDeviceDialog
    \/ OpenSettingsDialog

SpecShell == InitShell /\ [][NextShell]_vars

(***************************************************************************)
(* One run of LogExportWorker, file by file (settings_page.py).  A file of *)
(* the two directories has a name, a directory, whether its modification   *)
(* and creation time fall on today, whether zipf.write can read it and     *)
(* whether os.remove succeeds.  Opening and closing the archive can fail.  *)
(***************************************************************************)
MaxLogFiles == 2   \* most files in the two directories together

\* the files the directories may hold, in the order os.walk lists them
FileCandidates ==
    <<[dir |-> "logs", name |-> "app.log"],
      [dir |-> "logs", name |-> "logs_export_20250101_000000.zip"],
      [dir |-> "debug", name |-> "shot.png"],
      [dir |-> "debug", name |-> "logs_export_20250101_000000.zip"]>>

FileAttributes == [exists : {TRUE}, m_today : BOOLEAN, c_today : BOOLEAN,
                   readable : BOOLEAN, removable : BOOLEAN]

NoFile == [exists |-> FALSE, m_today |-> FALSE, c_today |-> FALSE,
           readable |-> FALSE, removable |-> FALSE]

\* the contents of the directories: which candidates exist, with attributes
Directories ==
    {d \in [1..Len(FileCandidates) -> FileAttributes \cup {NoFile}] :
        Cardinality({i \in DOMAIN d : d[i].exists}) <= MaxLogFiles}

\* file.startswith("logs_export_") and file.endswith(".zip")
IsExportArchive(file) ==
    /\ Len(file) >= 12 /\ SubSeq(file, 1, 12) = "logs_export_"
    /\ Len(file) >= 4 /\ SubSeq(file, Len(file) - 3, Len(file)) = ".zip"

\* LogExportWorker._is_today_file
IsTodayFile(attributes) == attributes.m_today \/ attributes.c_today

\* the scan of the two directories: the indices of files_to_process
FilesToProcess(files, only_today) ==
    SelectSeq([i \in 1..Len(FileCandidates) |-> i],
              LAMBDA i :
                  /\ files[i].exists
                  /\ ~(/\ FileCandidates[i].dir = "logs"
                       /\ IsExportArchive(FileCandidates[i].name))
                  /\ only_today => IsTodayFile(files[i]))

ExportCreated(files, only_today) ==
    [files |-> files, only_today |-> only_today, stage |-> "created",
     files_to_process |-> <<>>, files_to_delete |-> <<>>, archive |-> "none",
     deleted |-> {}, kept |-> {}, events |-> <<>>, cleaned |-> 0]

ExportEmit(run, event) == [run EXCEPT !.events = Append(@, event)]

ExportReturn(run) == [run EXCEPT !.stage = "returned"]

\* except Exception as e: self.error.emit(str(e))
ExportRaise(run) == ExportReturn(ExportEmit(run, "error"))

\* os.remove raising as any other step does
RemoveFileRaising(run, i) ==
    IF run.files[i].removable
    THEN [run EXCEPT !.deleted = @ \cup {i}, !.cleaned = @ + 1]
    ELSE ExportRaise(run)

\* try: os.remove(file_path) except OSError: pass
RemoveFile(run, i) ==
    IF run.files[i].removable
    THEN [run EXCEPT !.deleted = @ \cup {i}, !.cleaned = @ + 1]
    ELSE [run EXCEPT !.kept = @ \cup {i}, !.cleaned = @ + 1]

InitExport ==
    /\ \E files \in Directories, only_today \in BOOLEAN :
          export_run = ExportCreated(files, only_today)
    /\ config = DefaultAppConfig
    /\ doc = ToDict(DefaultAppConfig, 1, 1)
    /\ arg = EmptyDict
    /\ uuid_count = 0
    /\ op = "init"
    /\ DownloadPageConstructed
    /\ OrchestratorConstructed
    /\ resource_configs = <<>>
    /\ WidgetsConstructed
    /\ NotParsed
    /\ NothingCalled
    /\ NoSchedules
    /\ window = NoWindow
    /\ host = NoHost
    /\ settings_page = SettingsPageConstructed
    /\ folder = NoFolder
    /\ temp_dir = NoTempDir
    /\ threads = NoThreads
    /\ ui_effect = NoEffect
    /\ shell = <<>>
    /\ panel = <<>>
    /\ combat = <<>>

exRest == <<cfgVars, dlVars, suVars, rsVars, cliVars, applied, returned,
            device_tasks, now, window, host, settings_page, folder, temp_dir,
            threads, ui_effect, shell, panel, combat>>

\* run, lines 50-86: the scan; without a file the error is emitted and run
\* returns; lines 91: the archive is opened, which may fail
ExportScan ==
    /\ export_run.stage = "created"
    /\ op' = "LogExportWorker.scan"
    /\ LET files_to_process ==
               FilesToProcess(export_run.files, export_run.only_today)
           scanned == [export_run EXCEPT !.files_to_process = files_to_process]
       IN  IF files_to_process = <<>>
           THEN export_run' = ExportReturn(ExportEmit(scanned, "error"))
           ELSE \E opened \in BOOLEAN :
                   export_run' =
                       IF opened
                       THEN [scanned EXCEPT !.stage = "packaging",
                                            !.archive = "open"]
                       ELSE ExportRaise(scanned)
    /\ UNCHANGED exRest

\* run, lines 92-102: one file is written into the archive, or the write
\* raises and the with statement closes the archive on the way out
ExportWrite ==
    /\ export_run.stage = "packaging"
    /\ Len(export_run.files_to_delete) < Len(export_run.files_to_process)
    /\ op' = "LogExportWorker.write"
    /\ LET i == export_run.files_to_process[Len(export_run.files_to_delete) + 1]
       IN  export_run' =
               IF export_run.files[i].readable
               THEN ExportEmit([export_run EXCEPT
                                   !.files_to_delete = Append(@, i)], "progress")
               ELSE ExportRaise([export_run EXCEPT !.archive = "broken"])
    /\ UNCHANGED exRest

\* the end of the with statement: the archive is closed, which may fail;
\* line 105: the progress of the cleanup is emitted
ExportClose ==
    /\ export_run.stage = "packaging"
    /\ Len(export_run.files_to_delete) = Len(export_run.files_to_process)
    /\ op' = "LogExportWorker.close"
    /\ \E closed \in BOOLEAN :
          export_run' =
              IF closed
              THEN ExportEmit([export_run EXCEPT !.stage = "cleaning",
                                                 !.archive = "complete"],
                              "progress")
              ELSE ExportRaise([export_run EXCEPT !.archive = "broken"])
    /\ UNCHANGED exRest

\* run, lines 107-112: one source file is removed, or skipped
ExportRemove ==
    /\ export_run.stage = "cleaning"
    /\ export_run.cleaned < Len(export_run.files_to_delete)
    /\ op' = "LogExportWorker.remove"
    /\ export_run' = RemoveFile(export_run,
                         export_run.files_to_delete[export_run.cleaned + 1])
    /\ UNCHANGED exRest

\* run, line 114: finished is emitted
ExportFinish ==
    /\ export_run.stage = "cleaning"
    /\ export_run.cleaned = Len(export_run.files_to_delete)
    /\ op' = "LogExportWorker.finish"
    /\ export_run' = ExportReturn(ExportEmit(export_run, "finished"))
    /\ UNCHANGED exRest

NextExport ==
    \/ ExportScan
    \/ ExportWrite
    \/ ExportClose
    \/ ExportRemove
    \/ ExportFinish

SpecExport == InitExport /\ [][NextExport]_vars

(***************************************************************************)
(* Download page: rows of the list, selection, action bar of the detail    *)
(* view, status cache, checkers, downloaders and installs                  *)
(* (download_page.py).  A status of the cache is "checking", "available",  *)
(* "latest", "error", or "none" for a resource without entry.  The action  *)
(* bar shows "reset" (check button), "checking" (check button disabled),   *)
(* "available", "downloading", "latest", "error", or "git" (the status     *)
(* line during an update through git).                                     *)
(* UpdateChecker, UpdateDownloader and UpdateInstallerFactory are not part *)
(* of the sources: a checker reports one result per resource and then      *)
(* finishes, a downloader reports progress and then completed or failed, a *)
(* cancelled downloader reports failed or nothing, an install reports      *)
(* completed or failed.  The finished signal of a thread, which removes it *)
(* from active_checkers or active_downloaders, is delivered with its last  *)
(* report.                                                                 *)
(***************************************************************************)
MaxRows == 2       \* most resources of the list

RowNames == {"r1", "r2"}

\* ResourceDetailView.set_resource: the action bar for a cached status
BarOfStatus(status) ==
    CASE status = "available" -> "available"
      [] status = "latest" -> "latest"
      [] status = "error" -> "error"
      [] status = "checking" -> "checking"
      [] OTHER -> "reset"

\* the action bar after a cancelled download, from the status cached when
\* the download began
CancelBarOfBegan(p, name) ==
    IF p.began[name] = "available" THEN "available" ELSE "reset"

\* DownloadPage._cancel_download: the action bar from the cached status
CancelBar(p, name) ==
    IF p.cache[name] = "available" THEN "available" ELSE "reset"

\* DownloadPage._on_resource_selected
OnResourceSelected(p, name) ==
    IF p.selected = name THEN p
    ELSE [p EXCEPT !.selected = name, !.bar = BarOfStatus(p.cache[name])]

\* the rows with the indicator of every row whose status is 'available'
RowsFromCache(p, resources) ==
    [n \in Range(resources) |-> p.cache[n] = "available"]

\* ResourceListItem.__init__ for every resource: has_update = False
FreshRows(p, resources) == [n \in Range(resources) |-> FALSE]

\* DownloadPage.load_resources
LoadResources(p, resources) ==
    LET rebuilt == [p EXCEPT !.resources = resources,
                             !.rows = FreshRows(p, resources)]
    IN  IF p.selected = None /\ resources # <<>>
        THEN OnResourceSelected(rebuilt, resources[1])
        ELSE IF resources = <<>>
        THEN [rebuilt EXCEPT !.selected = None]
        ELSE rebuilt

\* DownloadPage._check_resource_update
CheckResource(p, name) ==
    IF p.checkers[name] # "none" THEN p
    ELSE [p EXCEPT !.cache[name] = "checking", !.checkers[name] = "running"]

\* DownloadPage._start_update
StartDownload(p, name, is_git_repo) ==
    IF name \notin p.info THEN p
    ELSE IF is_git_repo
    THEN [p EXCEPT !.bar = "git", !.installs = @ \cup {name}]
    ELSE IF p.downloaders[name] # "none" THEN p
    ELSE [p EXCEPT !.bar = "downloading",
                   !.downloaders[name] = "running",
                   !.began[name] = p.cache[name]]

\* DownloadPage._handle_update_found
HandleFound(p, name, is_git_repo) ==
    LET cached == [p EXCEPT !.info = @ \cup {name},
                            !.cache[name] = "available",
                            !.rows = [n \in DOMAIN @ |->
                                         IF n = name THEN TRUE ELSE @[n]]]
        shown == IF p.selected = name
                 THEN [cached EXCEPT !.bar = "available"] ELSE cached
    IN  IF name \in p.auto /\ name \in Range(p.resources)
        THEN StartDownload(shown, name, is_git_repo)
        ELSE shown

\* DownloadPage._handle_update_not_found
HandleNotFound(p, name) ==
    LET cached == [p EXCEPT !.cache[name] = "latest",
                            !.rows = [n \in DOMAIN @ |->
                                         IF n = name THEN FALSE ELSE @[n]]]
    IN  IF p.selected = name THEN [cached EXCEPT !.bar = "latest"] ELSE cached

\* DownloadPage._handle_check_failed
HandleFailed(p, name) ==
    LET cached == [p EXCEPT !.cache[name] = "error"]
    IN  IF p.selected = name THEN [cached EXCEPT !.bar = "error"] ELSE cached

\* one of the three results of a check of the resource
HandleResult(p, name, result, is_git_repo) ==
    CASE result = "update_found" -> HandleFound(p, name, is_git_repo)
      [] result = "update_not_found" -> HandleNotFound(p, name)
      [] OTHER -> HandleFailed(p, name)

CheckResults == {"update_found", "update_not_found", "check_failed"}

\* the resources with mirror_update_service_id or resource_rep_url
Updatable == {"r1"}

\* what a checker can report for the resource: no update is found for a
\* resource without update source
ResultsOf(name) ==
    IF name \in Updatable THEN CheckResults
    ELSE CheckResults \ {"update_found"}

\* DownloadPage.__init__: empty dictionaries, load_resources
PanelConstructed(resources, auto) ==
    LoadResources(
        [resources |-> <<>>, rows |-> <<>>, selected |-> None, bar |-> "reset",
         cache |-> [n \in RowNames |-> "none"], info |-> {},
         checkers |-> [n \in RowNames |-> "none"],
         batch |-> {}, batch_running |-> FALSE, check_all_enabled |-> TRUE,
         downloaders |-> [n \in RowNames |-> "none"],
         began |-> [n \in RowNames |-> "none"],
         installs |-> {}, auto |-> auto], resources)

InitPanel ==
    /\ \E resources \in {<<>>, <<"r1">>, <<"r1", "r2">>},
          auto \in {{}, {"r1"}} :
          panel = PanelConstructed(resources, auto)
    /\ config = DefaultAppConfig
    /\ doc = ToDict(DefaultAppConfig, 1, 1)
    /\ arg = EmptyDict
    /\ uuid_count = 0
    /\ op = "init"
    /\ DownloadPageConstructed
    /\ OrchestratorConstructed
    /\ resource_configs = <<>>
    /\ WidgetsConstructed
    /\ NotParsed
    /\ NothingCalled
    /\ NoSchedules
    /\ window = NoWindow
    /\ host = NoHost
    /\ settings_page = SettingsPageConstructed
    /\ folder = NoFolder
    /\ temp_dir = NoTempDir
    /\ threads = NoThreads
    /\ ui_effect = NoEffect
    /\ shell = <<>>
    /\ export_run = <<>>
    /\ combat = <<>>

pnRest == <<config, doc, uuid_count, dlVars, suVars, rsVars, cliVars, applied,
            returned, device_tasks, now, window, host, settings_page, folder,
            temp_dir, threads, ui_effect, shell, export_run, combat>>

PanelCalled(handler, name) ==
    /\ op' = handler
    /\ arg' = name
    /\ UNCHANGED pnRest

\* a row of the list is clicked
PanelSelect ==
    \E name \in Range(panel.resources) :
        /\ panel' = OnResourceSelected(panel, name)
        /\ PanelCalled("_on_resource_selected", name)

\* the check, force-update or retry button is clicked, or the source or the
\* channel is changed: set_checking, then _check_resource_update
PanelCheck ==
    /\ panel.selected # None
    /\ panel' = CheckResource([panel EXCEPT !.bar = "checking"], panel.selected)
    /\ PanelCalled("_check_resource_update", panel.selected)

\* DownloadPage.check_all_updates
PanelCheckAll ==
    /\ panel.check_all_enabled
    /\ ~panel.batch_running
    /\ panel' = LET resources_with_update ==
                         Range(panel.resources) \cap Updatable
                IN  IF resources_with_update = {}
                    THEN panel
                    ELSE [panel EXCEPT
                             !.check_all_enabled = FALSE,
                             !.cache = [n \in RowNames |->
                                           IF n \in resources_with_update
                                           THEN "checking" ELSE @[n]],
                             !.batch = resources_with_update,
                             !.batch_running = TRUE]
    /\ PanelCalled("check_all_updates", None)

\* the result of the single checker of a resource is delivered, and the
\* checker finishes: active_checkers.pop
PanelSingleResult ==
    \E name \in RowNames, result \in CheckResults, is_git_repo \in BOOLEAN :
        /\ panel.checkers[name] = "running"
        /\ result \in ResultsOf(name)
        /\ panel' = [HandleResult(panel, name, result, is_git_repo)
                        EXCEPT !.checkers[name] = "none"]
        /\ PanelCalled(result, name)

\* a result of the batch checker is delivered
PanelBatchResult ==
    \E name \in panel.batch, result \in CheckResults, is_git_repo \in BOOLEAN :
        /\ panel' = HandleResult([panel EXCEPT !.batch = @ \ {name}],
                                 name, result, is_git_repo)
        /\ PanelCalled(result, name)

\* DownloadPage._handle_batch_check_completed
PanelBatchCompleted ==
    /\ panel.batch_running
    /\ panel.batch = {}
    /\ panel' = [panel EXCEPT !.batch_running = FALSE,
                              !.check_all_enabled = TRUE]
    /\ PanelCalled("_handle_batch_check_completed", None)

\* the update button is clicked
PanelStartUpdate ==
    \E is_git_repo \in BOOLEAN :
        /\ panel.selected # None
        /\ panel.bar = "available"
        /\ panel' = StartDownload(panel, panel.selected, is_git_repo)
        /\ PanelCalled("_start_update", panel.selected)

\* DownloadPage._update_download_progress
PanelDownloadProgress ==
    \E name \in RowNames :
        /\ panel.downloaders[name] = "running"
        /\ panel' = IF panel.selected = name
                    THEN [panel EXCEPT !.bar = "downloading"] ELSE panel
        /\ PanelCalled("_update_download_progress", name)

\* DownloadPage._handle_download_completed; the downloader finishes
PanelDownloadCompleted ==
    \E name \in RowNames :
        /\ panel.downloaders[name] = "running"
        /\ panel' =
              LET ended == [panel EXCEPT !.downloaders[name] = "none",
                                         !.began[name] = "none"]
              IN  IF name \in Range(panel.resources)
                  THEN [ended EXCEPT !.installs = @ \cup {name}]
                  ELSE IF panel.selected = name
                  THEN [ended EXCEPT !.bar = "error"]
                  ELSE ended
        /\ PanelCalled("_handle_download_completed", name)

\* DownloadPage._handle_download_failed, of a running downloader or of one
\* that was asked to cancel; the downloader finishes
PanelDownloadFailed ==
    \E name \in RowNames :
        /\ panel.downloaders[name] \in {"running", "cancelled"}
        /\ panel' =
              LET ended == [panel EXCEPT !.downloaders[name] = "none",
                                         !.began[name] = "none"]
              IN  IF panel.selected = name
                  THEN [ended EXCEPT !.bar = "error"] ELSE ended
        /\ PanelCalled("_handle_download_failed", name)

\* thread.finished of a downloader that was asked to cancel and ends
\* without a report: active_downloaders.pop
PanelDownloaderFinished ==
    \E name \in RowNames :
        /\ panel.downloaders[name] = "cancelled"
        /\ panel' = [panel EXCEPT !.downloaders[name] = "none",
                                  !.began[name] = "none"]
        /\ PanelCalled("downloader.finished", name)

\* the cancel button is clicked: DownloadPage._cancel_download
PanelCancelDownload ==
    /\ panel.selected # None
    /\ panel.bar = "downloading"
    /\ panel' = IF panel.downloaders[panel.selected] = "none"
                THEN panel
                ELSE [panel EXCEPT
                         !.downloaders[panel.selected] =
                             IF @ = "running" THEN "cancelled" ELSE @,
                         !.bar = CancelBar(panel, panel.selected)]
    /\ PanelCalled("_cancel_download", panel.selected)

\* DownloadPage._handle_install_completed
PanelInstallCompleted ==
    \E name \in panel.installs :
        /\ panel' =
              LET popped == [panel EXCEPT !.installs = @ \ {name},
                                          !.cache[name] = "none",
                                          !.info = @ \ {name}]
                  loaded == LoadResources(popped, panel.resources)
              IN  IF name \in Range(panel.resources)
                  THEN [loaded EXCEPT !.selected = name, !.bar = "latest"]
                  ELSE loaded
        /\ PanelCalled("_handle_install_completed", name)

\* DownloadPage._handle_install_failed
PanelInstallFailed ==
    \E name \in panel.installs :
        /\ panel' =
              LET failed == [panel EXCEPT !.installs = @ \ {name}]
              IN  IF panel.selected = name
                  THEN [failed EXCEPT !.bar = "error"] ELSE failed
        /\ PanelCalled("_handle_install_failed", name)

\* DownloadPage._handle_add_succeeded: a resource was added to the directory
PanelAddSucceeded ==
    \E name \in RowNames \ Range(panel.resources) :
        /\ Len(panel.resources) < MaxRows
        /\ panel' = LoadResources(panel, Append(panel.resources, name))
        /\ PanelCalled("_handle_add_succeeded", name)

NextPanel ==
    \/ PanelSelect
    \/ PanelCheck
    \/ PanelCheckAll
    \/ PanelSingleResult
    \/ PanelBatchResult
    \/ PanelBatchCompleted
    \/ PanelStartUpdate
    \/ PanelDownloadProgress
    \/ PanelDownloadCompleted
    \/ PanelDownloadFailed
    \/ PanelDownloaderFinished
    \/ PanelCancelDownload
    \/ PanelInstallCompleted
    \/ PanelInstallFailed
    \/ PanelAddSucceeded

SpecPanel == InitPanel /\ [][NextPanel]_vars

\* ---------------------------------------------------------------------
\* BeginCombat.run (assets/resource/MaaWJDR/agent/action/combat.py): one
\* run of the custom action, step by step.  combat.calls is the ordered
\* list of the calls the run has made on the controller and the context.

MaxPolls == 2

\* ASCII stand-ins of the pipeline entry names used by run
ReadTimeEntry == "read_muster_time"
LaunchEntry == "click_launch"
MusteringEntry == "mustering"
MarchingEntry == "marching"
RetreatEntry == "retreat"
MusterEntry == "muster_entry"

\* custom_action_param after json.loads: the monster kind key may be absent
CombatParams ==
    {[present |-> FALSE, value |-> 0],
     [present |-> TRUE, value |-> 0],
     [present |-> TRUE, value |-> 1]}

\* param.get("monster kind"): the value, or None when the key is absent
ParamGet(param) ==
    IF param.present THEN param ELSE [present |-> FALSE, value |-> 0]

\* texts the time recognition may read
TimeTexts == {"00:00:01", "00:01:05", "1:0:0", "00:05", "0a:00:01"}

BoxCoordinates == {0, 10}

NoDetail == [is_none |-> TRUE, has_box |-> FALSE, x |-> 0, y |-> 0, text |-> ""]

\* what run_recognition may hand back: None, a detail without a box, or a
\* detail with the box of the hit
RecognitionDetails ==
    {NoDetail, [NoDetail EXCEPT !.is_none = FALSE]}
    \cup {[NoDetail EXCEPT !.is_none = FALSE, !.has_box = TRUE, !.x = x, !.y = y] :
            x \in BoxCoordinates, y \in BoxCoordinates}

TimeDetails ==
    {NoDetail} \cup {[NoDetail EXCEPT !.is_none = FALSE, !.text = t] : t \in TimeTexts}

\* hours, minutes, seconds = map(int, text.split(':')) and the sum of line 85;
\* ok is FALSE where the unpacking or int() raises
ParseReturnTime(text) ==
    LET parts == Split(text, ":")
    IN  IF Len(parts) = 3 /\ \A i \in 1..3 : IntOf(parts[i]).ok
        THEN [ok |-> TRUE,
              value |-> IntOf(parts[1]).value * 3600 + IntOf(parts[2]).value * 60
                        + IntOf(parts[3]).value]
        ELSE [ok |-> FALSE, value |-> 0]

NoCall ==
    [call |-> "", entry |-> "", override |-> <<>>, ms |-> 0, x |-> 0, y |-> 0,
     hit |-> FALSE]

RunTask(entry, override) ==
    [NoCall EXCEPT !.call = "run_task", !.entry = entry, !.override = override]

Sleep(ms) == [NoCall EXCEPT !.call = "sleep", !.ms = ms]

PostClick(x, y) == [NoCall EXCEPT !.call = "post_click", !.x = x, !.y = y]

RunRecognition(entry, detail) ==
    [NoCall EXCEPT !.call = "run_recognition", !.entry = entry,
                   !.hit = ~detail.is_none /\ detail.has_box]

\* line 93: detail is not None and detail.box
MusterFound(detail) == ~detail.is_none /\ detail.has_box

\* line 102: the loop goes on while detail is None
MarchLoopEnds(detail) == ~detail.is_none

\* line 107: the seconds slept after the retreat, in milliseconds
ReturnWait(return_time) == (return_time * 2 + 2) * 1000

BeginCombatEntered(param) ==
    [param |-> param, pc |-> "read_time", return_time |-> 0, detail |-> NoDetail,
     polls |-> 0, calls |-> <<>>, result |-> "running"]

\* lines 81-85
ReadReturnTime(c, detail) ==
    LET called == [c EXCEPT !.calls = @ \o <<RunRecognition(ReadTimeEntry, detail)>>]
        parsed == ParseReturnTime(detail.text)
    IN  IF detail.is_none \/ ~parsed.ok
        THEN [called EXCEPT !.pc = "done", !.result = "raised"]
        ELSE [called EXCEPT !.pc = "launch", !.return_time = parsed.value]

\* lines 88-91
Launch(c, detail) ==
    [c EXCEPT !.calls = @ \o <<RunTask(LaunchEntry, <<>>), Sleep(500),
                               RunRecognition(MusteringEntry, detail)>>,
              !.detail = detail,
              !.pc = "muster_check"]

\* lines 93-101 and 119
MusterCheck(c) ==
    IF MusterFound(c.detail)
    THEN [c EXCEPT !.calls = @ \o <<PostClick(6 + c.detail.x + 195, c.detail.y)>>,
                   !.detail = NoDetail,
                   !.pc = "march_poll"]
    ELSE [c EXCEPT !.pc = "done", !.result = "true"]

\* lines 102-105: one turn of the loop
PollMarch(c, detail) ==
    [c EXCEPT !.calls = @ \o <<Sleep(1000), RunRecognition(MarchingEntry, detail)>>,
              !.detail = detail,
              !.polls = @ + 1,
              !.pc = IF MarchLoopEnds(detail) THEN "retreat" ELSE "march_poll"]

\* line 106
Retreat(c) ==
    [c EXCEPT !.calls = @ \o <<RunTask(RetreatEntry, <<>>)>>, !.pc = "wait"]

\* line 107
WaitReturn(c) ==
    [c EXCEPT !.calls = @ \o <<Sleep(ReturnWait(c.return_time))>>, !.pc = "reenter"]

\* lines 108-118
Reenter(c) ==
    [c EXCEPT !.calls = @ \o <<RunTask(MusterEntry, <<ParamGet(c.param)>>)>>,
              !.pc = "done",
              !.result = "true"]

InitCombat ==
    /\ \E param \in CombatParams : combat = BeginCombatEntered(param)
    /\ config = DefaultAppConfig
    /\ doc = ToDict(DefaultAppConfig, 1, 1)
    /\ arg = EmptyDict
    /\ uuid_count = 0
    /\ op = "init"
    /\ DownloadPageConstructed
    /\ OrchestratorConstructed
    /\ resource_configs = <<>>
    /\ WidgetsConstructed
    /\ NotParsed
    /\ NothingCalled
    /\ NoSchedules
    /\ window = NoWindow
    /\ host = NoHost
    /\ settings_page = SettingsPageConstructed
    /\ folder = NoFolder
    /\ temp_dir = NoTempDir
    /\ threads = NoThreads
    /\ ui_effect = NoEffect
    /\ shell = <<>>
    /\ panel = <<>>
    /\ export_run = <<>>

cbRest == <<config, doc, arg, uuid_count, dlVars, suVars, rsVars, cliVars, applied,
            returned, device_tasks, now, window, host, settings_page, folder,
            temp_dir, threads, ui_effect, shell, panel, export_run>>

CombatStep(step) ==
    /\ op' = step
    /\ UNCHANGED cbRest

CombatReadTime ==
    /\ combat.pc = "read_time"
    /\ \E detail \in TimeDetails : combat' = ReadReturnTime(combat, detail)
    /\ CombatStep("read_time")

CombatLaunch ==
    /\ combat.pc = "launch"
    /\ \E detail \in RecognitionDetails : combat' = Launch(combat, detail)
    /\ CombatStep("launch")

CombatMusterCheck ==
    /\ combat.pc = "muster_check"
    /\ combat' = MusterCheck(combat)
    /\ CombatStep("muster_check")

CombatPollMarch ==
    /\ combat.pc = "march_poll"
    /\ combat.polls < MaxPolls
    /\ \E detail \in RecognitionDetails : combat' = PollMarch(combat, detail)
    /\ CombatStep("march_poll")

CombatRetreat ==
    /\ combat.pc = "retreat"
    /\ combat' = Retreat(combat)
    /\ CombatStep("retreat")

CombatWait ==
    /\ combat.pc = "wait"
    /\ combat' = WaitReturn(combat)
    /\ CombatStep("wait")

CombatReenter ==
    /\ combat.pc = "reenter"
    /\ combat' = Reenter(combat)
    /\ CombatStep("reenter")

NextCombat ==
    \/ CombatReadTime
    \/ CombatLaunch
    \/ CombatMusterCheck
    \/ CombatPollMarch
    \/ CombatRetreat
    \/ CombatWait
    \/ CombatReenter

SpecCombat == InitCombat /\ [][NextCombat]_vars


(***************************************************************************)
(* Claims about the configuration.                                         *)
(***************************************************************************)
SettingsEquivalent(s1, s2) ==
    /\ s1.name = s2.name
    /\ s1.resource_name = s2.resource_name
    /\ DictEq(s1.task_instances, s2.task_instances)
    /\ s1.task_order = s2.task_order

ConfigEquivalent(c1, c2) ==
    /\ c1.devices = c2.devices
    /\ Len(c1.resource_settings) = Len(c2.resource_settings)
    /\ \A i \in 1..Len(c1.resource_settings) :
          SettingsEquivalent(c1.resource_settings[i], c2.resource_settings[i])
    /\ c1.schedule_tasks = c2.schedule_tasks
    /\ c1.resource_update_methods = c2.resource_update_methods
    /\ c1.update_method = c2.update_method
    /\ c1.receive_beta_update = c2.receive_beta_update
    /\ c1.auto_check_update = c2.auto_check_update
    /\ c1.window_size = c2.window_size
    /\ c1.window_position = c2.window_position
    /\ c1.debug_model = c2.debug_model
    /\ c1.minimize_to_tray_on_close = c2.minimize_to_tray_on_close
    /\ c1.emulator_start_wait_time = c2.emulator_start_wait_time
    /\ c1.CDK = c2.CDK
    /\ c1.github_token = c2.github_token

\* C1: for every AppConfig the program holds, from_dict(to_dict(c)) equals c in
\* every listed field (secrets in plaintext) and has config_version 2.
\* The code violates it: to_dict leaves out an empty update_method, which
\* from_dict then reads as "github", and an empty schedule_id, which from_dict
\* replaces by a fresh uuid.
C1_RoundTrip ==
    \A iv_cdk \in Ivs, iv_token \in Ivs :
        LET back == AppConfigFromDict(ToDict(config, iv_cdk, iv_token), uuid_count)
        IN  /\ back.config_version = 2
            /\ ConfigEquivalent(back, config)

StringKeys == {"update_method", "window_size", "window_position"}

\* C2: the dictionary to_dict produces has no key 'CDK' or 'github_token', holds
\* the plaintext of neither secret, holds 'encrypted_cdk' /
\* 'encrypted_github_token' exactly when the secret is not empty, and what it
\* holds there is the encryption of the secret.
C2_SecretsOnlyEncrypted ==
    op \in {"to_dict", "save_cdk"} =>
        /\ ~Has(doc, "CDK")
        /\ ~Has(doc, "github_token")
        /\ Has(doc, "encrypted_cdk") <=> (config.CDK # "")
        /\ Has(doc, "encrypted_github_token") <=> (config.github_token # "")
        /\ Has(doc, "encrypted_cdk") =>
              /\ doc.encrypted_cdk.key = EncryptionKey
              /\ Decrypt(doc.encrypted_cdk) = config.CDK
        /\ Has(doc, "encrypted_github_token") =>
              /\ doc.encrypted_github_token.key = EncryptionKey
              /\ Decrypt(doc.encrypted_github_token) = config.github_token
        /\ \A k \in (DOMAIN doc) \cap StringKeys :
              doc[k] \notin ({config.CDK, config.github_token} \ {""})

C2_Witness ==
    /\ op = "save_cdk"
    /\ config.CDK = "cdk-1"
    /\ config.github_token = "ghp-1"
    /\ Has(doc, "encrypted_cdk")

\* every instance id a document carries
DocInstanceIds(data) ==
    UNION {KeySet(Get(Get(data, "resource_settings", <<>>)[i], "task_instances", <<>>)) :
              i \in 1..Len(Get(data, "resource_settings", <<>>))}

MigratedEntries(data) ==
    {i \in 1..Len(Get(data, "resource_settings", <<>>)) :
        Has(data.resource_settings[i], "selected_tasks")}

\* C3: from_dict of a document with config_version below 2 (or absent) turns an
\* entry with n selected_tasks into n TaskInstance entries, one per task name in
\* list order, each enabled, each with the options of the legacy list, each
\* keyed by its own fresh id, and task_order lists these ids in creation order.
C3_Migration ==
    (op = "from_dict" /\ DocVersion(doc) < 2) =>
        /\ \A i \in MigratedEntries(doc) :
              LET sd == doc.resource_settings[i]
                  rs == config.resource_settings[i]
                  n  == Len(sd.selected_tasks)
              IN  /\ Len(rs.task_instances) = n
                  /\ rs.task_order = KeysOf(rs.task_instances)
                  /\ Cardinality(KeySet(rs.task_instances)) = n
                  /\ KeySet(rs.task_instances) \cap DocInstanceIds(doc) = {}
                  /\ \A j \in 1..n :
                        /\ rs.task_instances[j].val.task_name = sd.selected_tasks[j]
                        /\ rs.task_instances[j].val.enabled = TRUE
                        /\ rs.task_instances[j].val.options = Get(sd, "options", <<>>)
                        /\ rs.task_instances[j].val.instance_id = rs.task_instances[j].key
        /\ \A i \in MigratedEntries(doc), k \in MigratedEntries(doc) :
              i # k => KeySet(config.resource_settings[i].task_instances)
                         \cap KeySet(config.resource_settings[k].task_instances) = {}

C3_Witness ==
    /\ op = "from_dict"
    /\ ~Has(doc, "config_version")
    /\ \E i \in MigratedEntries(doc) :
          /\ doc.resource_settings[i].selected_tasks = <<"a", "b">>
          /\ Get(doc.resource_settings[i], "options", <<>>) = <<OptionX>>
          /\ Len(config.resource_settings[i].task_order) = 2

\* what the claim says of the order ResourceSettings.from_dict gives an entry
OrderAsClaimed(settings_data, rs) ==
    LET keys  == KeysOf(Get(settings_data, "task_instances", <<>>))
        raw   == Get(settings_data, "task_order", keys)
        valid == {j \in 1..Len(raw) : raw[j] \in Range(keys)}
    IN  /\ Range(rs.task_order) \subseteq KeySet(rs.task_instances)
        /\ KeysOf(rs.task_instances) = keys
        /\ IF valid = {} THEN rs.task_order = keys
           ELSE /\ Len(rs.task_order) = Cardinality(valid)
                /\ \A j \in valid :
                      rs.task_order[Cardinality({m \in valid : m <= j})] = raw[j]

\* C4: after ResourceSettings.from_dict (so after AppConfig.from_dict and after
\* add_or_update_resource_setting) every id of task_order is an instance key;
\* ids that are no instance key are dropped, the others keep their relative
\* order, and if none remains task_order is all instance ids in mapping order.
C4_TaskOrderClean ==
    /\ \A i \in 1..Len(config.resource_settings) :
          Range(config.resource_settings[i].task_order)
              \subseteq KeySet(config.resource_settings[i].task_instances)
    /\ op = "from_dict" =>
          \A i \in 1..Len(Get(doc, "resource_settings", <<>>)) :
              ~IsLegacy(DocVersion(doc), doc.resource_settings[i]) =>
                  OrderAsClaimed(doc.resource_settings[i], config.resource_settings[i])
    /\ (op = "add_or_update_resource_setting" /\ arg.name # "") =>
          \E i \in 1..Len(config.resource_settings) :
              /\ config.resource_settings[i].name = arg.name
              /\ config.resource_settings[i].resource_name = arg.resource_name
              /\ OrderAsClaimed(arg, config.resource_settings[i])

C4_Witness ==
    /\ op = "add_or_update_resource_setting"
    /\ arg.name = "s1"
    /\ arg.task_order = <<"zz", "i2">>
    /\ \E i \in 1..Len(config.resource_settings) :
          /\ config.resource_settings[i].name = "s1"
          /\ config.resource_settings[i].task_order = <<"i2">>

C4_WitnessRebuilt ==
    /\ op = "from_dict"
    /\ Len(Get(doc, "resource_settings", <<>>)) = 1
    /\ Get(doc.resource_settings[1], "task_order", <<>>) = <<"zz">>
    /\ config.resource_settings[1].task_order = <<"i2", "i1">>

(***************************************************************************)
(* Download page: single-flight update operations.                         *)
(***************************************************************************)
\* the slots that end in a call of _check_resource_update
CheckCalls ==
    {"_check_resource_update", "_force_check_resource_update",
     "_on_source_changed", "_on_channel_changed"}

\* C5: a call of _check_resource_update (normal or forced) for a name that is
\* in active_checkers starts no worker and changes neither active_checkers
\* nor update_status_cache; the name leaves active_checkers only in the
\* finished slot of its worker, and a check called for a name that is not
\* registered is accepted: it registers the name, starts one worker and caches
\* 'checking'.
C5_SecondCheckIsNoOp ==
    [][\A name \in Names :
          /\ (op' \in CheckCalls /\ resource' = name /\ name \in active_checkers) =>
                 /\ workers' = workers
                 /\ active_checkers' = active_checkers
                 /\ update_status_cache' = update_status_cache
          /\ (name \in active_checkers /\ name \notin active_checkers') =>
                 /\ op' = "checker_finished"
                 /\ resource' = name
                 /\ InFlight(workers, "check", name) = 1
                 /\ InFlight(workers', "check", name) = 0
          /\ (/\ op' \in {"_check_resource_update", "_force_check_resource_update"}
              /\ resource' = name
              /\ name \notin active_checkers) =>
                 /\ name \in active_checkers'
                 /\ InFlight(workers', "check", name) = InFlight(workers, "check", name) + 1
                 /\ update_status_cache'[name] = "checking"]_vars

\* a forced check was called while the normal check of the resource was still
\* registered, and the only worker in flight is the normal one
C5_Witness ==
    /\ op = "_force_check_resource_update"
    /\ resource = "r1"
    /\ "r1" \in active_checkers
    /\ workers = SetToBag({Worker("check", "r1", "running", FALSE)})

\* a check was accepted again after the first worker had finished
C5_WitnessAcceptedAgain ==
    /\ op = "_check_resource_update"
    /\ resource = "r1"
    /\ update_status_cache["r1"] = "checking"
    /\ Has(current_update_info, "r1")
    /\ workers = SetToBag({Worker("check", "r1", "running", FALSE)})

\* update checks in flight for a name: single-mode checkers and the batch checker
ChecksInFlight(name) ==
    InFlight(workers, "check", name)
    + (IF name \in Range(batch_checker_thread.remaining) THEN 1 ELSE 0)

\* C6: in every interleaving of user actions on the download page with worker
\* events, no resource name has two update checks, two downloads or two
\* installs in flight at the same time.
C6_SingleFlight ==
    \A name \in Names :
        /\ ChecksInFlight(name) <= 1
        /\ InFlight(workers, "download", name) <= 1
        /\ InFlight(workers, "install", name) <= 1

\* the parts of C6, one by one
C6_OneCheck == \A name \in Names : ChecksInFlight(name) <= 1

C6_OneDownload == \A name \in Names : InFlight(workers, "download", name) <= 1

C6_OneInstall == \A name \in Names : InFlight(workers, "install", name) <= 1

(***************************************************************************)
(* Startup update orchestrator: sequential auto-updates and the flag.      *)
(***************************************************************************)
\* downloads and installs of one queued item that are under way
RunningIn(w, name) ==
    CopiesIn(Worker("download", name, "running", FALSE), w)
    + CopiesIn(Worker("install", name, "running", FALSE), w)

RunningAuto(name) == RunningIn(auto_workers, name)

OneAtATime ==
    /\ \A name \in Range(queued) :
          RunningAuto(name) > 0 =>
              /\ RunningAuto(name) = 1
              /\ current_auto_update.resource_name = name
    /\ current_auto_update # NoUpdate =>
          current_auto_update.resource_name = started[Len(started)]

InDiscoveryOrder == started \o NamesOf(auto_update_pending) = queued

\* the handlers through which the current item reports
Reports ==
    {"_handle_install_completed", "_handle_install_failed",
     "_handle_auto_download_failed", "_handle_auto_download_completed"}

\* C7: at most one queued auto-update is being downloaded or installed at any
\* time; the queued items are started in the order their update-found events
\* arrived; a next item is started only in the handler of check-completed
\* (the first one) or in the handler in which the current item reports
\* install-completed, install-failed or download-failed, or is skipped
\* because its local resource record is missing.
C7_OneAtATimeInOrder ==
    [][/\ OneAtATime'
       /\ InDiscoveryOrder'
       /\ Len(started') > Len(started) =>
             /\ current_auto_update = NoUpdate => op' = "_handle_check_completed"
             /\ current_auto_update # NoUpdate =>
                   /\ op' \in Reports
                   /\ resource' = current_auto_update.resource_name
                   /\ RunningIn(auto_workers', current_auto_update.resource_name) = 0
                   /\ op' = "_handle_auto_download_completed" =>
                         current_auto_update.resource_name \notin Range(resource_configs)
             /\ \A i \in (Len(started) + 1)..(Len(started') - 1) :
                   started'[i] \notin Range(resource_configs')]_vars

\* three queued items; the third one is under way after the first two reported
C7_Witness ==
    /\ queued = <<"r3", "r1", "r2">>
    /\ started = queued
    /\ current_auto_update.resource_name = "r2"
    /\ RunningAuto("r2") = 1
    /\ op \in Reports

\* C8: no handler resets startup_update_in_progress while the batch check has
\* not completed, while auto_update_pending is non-empty or while
\* current_auto_update is set.
C8_FlagHeldWhileBusy ==
    [][(startup_update_in_progress /\ ~startup_update_in_progress') =>
          /\ update_checker_thread'.stage = "completed"
          /\ auto_update_pending' = <<>>
          /\ current_auto_update' = NoUpdate]_vars

\* the flag is still set while the second of three queued items is processed
C8_Witness ==
    /\ startup_update_in_progress
    /\ update_checker_thread.stage = "completed"
    /\ Len(started) = 2
    /\ Len(auto_update_pending) = 1
    /\ current_auto_update # NoUpdate

\* the flag has been reset by the report of the last of three queued items
C8_WitnessReset ==
    /\ ~startup_update_in_progress
    /\ Len(started) = 3
    /\ op \in Reports
    /\ auto_update_pending = <<>>
    /\ current_auto_update = NoUpdate

(***************************************************************************)
(* Run/stop button and the startup flag.                                   *)
(***************************************************************************)
\* C9: while startup_update_in_progress is true, handle_run_stop_action of a
\* device card and of a basic-info panel only shows the warning: it starts
\* neither run_device_tasks nor stop_device_tasks, so no call of
\* run_device_all_resource_task or stop_device_processing comes from it;
\* while the flag is false it starts stop_device_tasks (stop_device_processing)
\* when the device is busy and run_device_tasks (run_device_all_resource_task)
\* otherwise, never both; the task manager is called only by a slot that a
\* handle_run_stop_action has started.
C9_RunStopBlocked ==
    [][/\ \A w \in Widgets :
             (op' = "handle_run_stop_action" /\ widget' = w) =>
                 /\ task_manager_call' = task_manager_call
                 /\ startup_update_in_progress =>
                       /\ notice' = "show_warning"
                       /\ scheduled' = scheduled
                 /\ (~startup_update_in_progress /\ is_busy) =>
                       /\ notice' = "stop_device_tasks"
                       /\ scheduled' = scheduled \cup {Scheduled(w, "stop_device_tasks")}
                 /\ (~startup_update_in_progress /\ ~is_busy) =>
                       /\ notice' = "run_device_tasks"
                       /\ scheduled' = scheduled \cup {Scheduled(w, "run_device_tasks")}
       /\ op' = "run_device_tasks" =>
             /\ Scheduled(widget', "run_device_tasks") \in scheduled
             /\ task_manager_call' = "run_device_all_resource_task"
       /\ op' = "stop_device_tasks" =>
             /\ Scheduled(widget', "stop_device_tasks") \in scheduled
             /\ task_manager_call' = "stop_device_processing"
       /\ op' \notin {"run_device_tasks", "stop_device_tasks"} =>
             task_manager_call' = task_manager_call]_vars

\* the button of the panel was pressed while the flag was set: warning only
C9_Witness ==
    /\ op = "handle_run_stop_action"
    /\ widget = "BasicInfoWidget"
    /\ startup_update_in_progress
    /\ notice = "show_warning"
    /\ scheduled = {}
    /\ task_manager_call = ""

\* the button of the card was pressed for a busy device, the flag being clear
C9_WitnessStop ==
    /\ op = "stop_device_tasks"
    /\ widget = "DeviceCard"
    /\ ~startup_update_in_progress
    /\ notice = "stop_device_tasks"
    /\ task_manager_call = "stop_device_processing"

(***************************************************************************)
(* Command line.                                                           *)
(***************************************************************************)
\* C10: for every combination of flags parse_arguments returns headless = true
\* whenever -auto or --headless is given; exit_on_complete = true whenever
\* headless is true or --exit-on-complete or -exit_on_complete is given;
\* device = ["all"] whenever headless is true and no device list was given
\* (neither --device nor -s); and with neither -auto nor --headless,
\* headless = false and the names given with --device are the device list,
\* unchanged.
C10_ParseArguments ==
    cli_stage # "start" =>
        /\ (argv.auto \/ argv.headless) => args.headless
        /\ (args.headless \/ argv.exit_on_complete \/ argv.legacy_exit_on_complete)
              => args.exit_on_complete
        /\ (args.headless /\ argv.device = Absent /\ argv.s = Absent)
              => args.device = <<"all">>
        /\ (~argv.auto /\ ~argv.headless) =>
              /\ ~args.headless
              /\ argv.device # Absent => args.device = argv.device

\* -auto alone
C10_Witness ==
    /\ cli_stage = "parsed"
    /\ argv = [NoOptions EXCEPT !.auto = TRUE]
    /\ args.headless
    /\ args.exit_on_complete
    /\ args.device = <<"all">>

\* --device foo bar with neither -auto nor --headless
C10_WitnessDevice ==
    /\ cli_stage = "parsed"
    /\ argv = [NoOptions EXCEPT !.device = <<"foo", "bar">>]
    /\ ~args.headless
    /\ ~args.exit_on_complete
    /\ args.device = <<"foo", "bar">>

\* C11: parse_arguments: when --device is given, the device list is exactly
\* the --device names whatever -s holds; when --device is not given and -s is
\* given on the command line, the device list equals the -s list, in GUI mode
\* as in headless mode and for every -s value, the single name all included.
C11_LegacyDeviceList ==
    cli_stage # "start" =>
        /\ argv.device # Absent => args.device = argv.device
        /\ (argv.device = Absent /\ argv.s # Absent) => args.device = argv.s

\* the part of C11 about --device alone
C11_DeviceWins ==
    cli_stage # "start" => (argv.device # Absent => args.device = argv.device)

\* the part of C11 about -s, for every list but ["all"] in GUI mode
C11_LegacyUnlessAllInGui ==
    cli_stage # "start" =>
        ((argv.device = Absent /\ argv.s # Absent
             /\ (argv.s # <<"all">> \/ argv.auto \/ argv.headless))
            => args.device = argv.s)

\* "-s all" in GUI mode: no device list, and no delayed start is scheduled
C11_AllIgnoredInGui ==
    /\ cli_stage = "scheduled"
    /\ argv = [NoOptions EXCEPT !.s = <<"all">>]
    /\ args.device = Absent
    /\ ~delayed_start

(***************************************************************************)
(* Per-resource update preferences.                                        *)
(***************************************************************************)
\* C12: for a resource name with no entry in resource_update_methods,
\* get_resource_update_method returns the global update_method,
\* get_resource_update_channel returns "beta" if receive_beta_update is true
\* and "stable" otherwise, and get_resource_auto_download returns false; for a
\* name with an entry the three accessors return the entry's method, channel
\* and auto_download_update, whatever the global settings are.
C12_Accessors ==
    applied # <<>> =>
        LET name == applied.resource_name
            entries == config.resource_update_methods
        IN  /\ (name \notin DOMAIN entries /\ applied.fn = "get_resource_update_method")
                  => returned = config.update_method
            /\ (name \notin DOMAIN entries /\ applied.fn = "get_resource_update_channel")
                  => returned = (IF config.receive_beta_update THEN "beta" ELSE "stable")
            /\ (name \notin DOMAIN entries /\ applied.fn = "get_resource_auto_download")
                  => returned = FALSE
            /\ (name \in DOMAIN entries /\ applied.fn = "get_resource_update_method")
                  => returned = entries[name].method
            /\ (name \in DOMAIN entries /\ applied.fn = "get_resource_update_channel")
                  => returned = entries[name].channel
            /\ (name \in DOMAIN entries /\ applied.fn = "get_resource_auto_download")
                  => returned = entries[name].auto_download_update

\* the entry of r1 says MirrorChyan while the global method is github
C12_Witness ==
    /\ applied = [fn |-> "get_resource_update_method", resource_name |-> "r1"]
    /\ config.update_method = "github"
    /\ Has(config.resource_update_methods, "r1")
    /\ config.resource_update_methods["r1"].method = "MirrorChyan"
    /\ returned = "MirrorChyan"

\* no entry for r2, beta updates are received
C12_WitnessDefault ==
    /\ applied = [fn |-> "get_resource_update_channel", resource_name |-> "r2"]
    /\ ~Has(config.resource_update_methods, "r2")
    /\ config.receive_beta_update
    /\ returned = "beta"

(***************************************************************************)
(* Schedule label.                                                         *)
(***************************************************************************)
\* the next_run values of the entries that are active and have one
Candidates ==
    {device_tasks[i].next_run : i \in
        {j \in 1..Len(device_tasks) :
            /\ device_tasks[j].status = "Active"
            /\ device_tasks[j].next_run # NoNextRun}}

\* the label the claim gives a timestamp, "Today", "Tomorrow" standing for
\* the two words of the interface
ClaimedLabel(t) ==
    LET hm == (IF t.hour < 10 THEN "0" ELSE "") \o ToString(t.hour) \o ":" \o
              (IF t.minute < 10 THEN "0" ELSE "") \o ToString(t.minute)
        month == IF t.day <= 31 THEN 1 ELSE 2
        dom == IF t.day <= 31 THEN t.day ELSE t.day - 31
    IN  IF t.day = now THEN "Today " \o hm
        ELSE IF t.day = now + 1 THEN "Tomorrow " \o hm
        ELSE "0" \o ToString(month) \o "-" \o
             (IF dom < 10 THEN "0" ELSE "") \o ToString(dom) \o " " \o hm

\* C13: for any schedule entries of a device, _get_scheduled_info of the card
\* and of the panel takes the earliest next_run among the entries whose status
\* is active and whose next_run is present, and renders it as "today HH:MM"
\* when its date is today, "tomorrow HH:MM" when it is tomorrow and
\* "MM-DD HH:MM" otherwise; when there is no such entry the card shows
\* "not set" and the panel "not enabled".
C13_ScheduleLabel ==
    op = "_get_scheduled_info" =>
        IF Candidates = {}
        THEN /\ ~returned.has_scheduled
             /\ applied.widget = "DeviceCard" => returned.text = "NotSet"
             /\ applied.widget = "BasicInfoWidget" => returned.text = "NotEnabled"
        ELSE /\ returned.has_scheduled
             /\ \E t \in Candidates :
                   /\ \A u \in Candidates : ~Earlier(u, t)
                   /\ returned.text = ClaimedLabel(t)

\* today 09:00, tomorrow 08:00 and in five days 10:00, all active
C13_Witness ==
    /\ op = "_get_scheduled_info"
    /\ now = 31
    /\ device_tasks =
          <<[status |-> "Active", next_run |-> [day |-> 32, hour |-> 8, minute |-> 0]],
            [status |-> "Active", next_run |-> [day |-> 31, hour |-> 9, minute |-> 0]],
            [status |-> "Active", next_run |-> [day |-> 36, hour |-> 10, minute |-> 0]]>>
    /\ returned.text = "Today 09:00"

\* the earliest active entry is the day after tomorrow: month and day
C13_WitnessDate ==
    /\ op = "_get_scheduled_info"
    /\ now = 30
    /\ Candidates = {[day |-> 32, hour |-> 8, minute |-> 0],
                     [day |-> 36, hour |-> 10, minute |-> 0]}
    /\ returned.text = "02-01 08:00"

\* an earlier entry is paused, the active one is tomorrow
C13_WitnessTomorrow ==
    /\ op = "_get_scheduled_info"
    /\ now = 30
    /\ Len(device_tasks) = 2
    /\ device_tasks[1].status = "Paused"
    /\ device_tasks[1].next_run = [day |-> 31, hour |-> 9, minute |-> 0]
    /\ returned.text = "Tomorrow 23:05"

\* no active entry with a next run: the panel
C13_WitnessNone ==
    /\ op = "_get_scheduled_info"
    /\ device_tasks # <<>>
    /\ applied.widget = "BasicInfoWidget"
    /\ returned.text = "NotEnabled"

(***************************************************************************)
(* Window geometry.                                                        *)
(***************************************************************************)
CenterSpellings == {"center", "CENTER", "Center"}

UnparsableSizes == {"abc", "1024", "1024x", "10x20x30"}

\* C14: for any window size and position, negative coordinates included, the
\* strings that force_quit and closeEvent store in window_size and
\* window_position are parsed by the MainWindow constructor back to the same
\* size and position; a window_position equal to "center" in any letter case
\* causes no move, and an unparsable size falls back to 800x600.
C14_GeometryRestored ==
    [][op' = "MainWindow.__init__" =>
          /\ window.stage = "quit" =>
                /\ window'.size = window.size
                /\ window'.moved
                /\ window'.pos = window.pos
          /\ config.window_position \in CenterSpellings => ~window'.moved
          /\ config.window_size \in UnparsableSizes => window'.size = <<800, 600>>]_vars

\* a window of 1024x768 at (-5, -10) was closed and the program started again
C14_Witness ==
    /\ op = "MainWindow.__init__"
    /\ doc.window_size = "1024x768"
    /\ doc.window_position = "-5,-10"
    /\ window = [stage |-> "open", size |-> <<1024, 768>>, pos |-> <<-5, -10>>,
                 moved |-> TRUE]

\* the stored position is CENTER: the window is left where it was placed
C14_WitnessCenter ==
    /\ op = "MainWindow.__init__"
    /\ config.window_position = "CENTER"
    /\ config.window_size = "10x20x30"
    /\ ~window.moved
    /\ window.size = <<800, 600>>

(***************************************************************************)
(* Update of the application itself.                                       *)
(***************************************************************************)
\* the asset name the claim gives a host, "" for a host it calls unsupported
ClaimedAsset ==
    LET os == CASE host.system = "Windows" -> "windows"
                [] host.system = "Linux" -> "linux"
                [] host.system = "Darwin" -> "macos"
                [] OTHER -> ""
        ext == IF host.system = "Windows" THEN ".zip" ELSE ".tar.gz"
        arch == CASE host.machine \in {"AMD64", "amd64", "x86_64"} -> "x64"
                  [] host.machine \in {"arm64", "aarch64"} -> "arm64"
                  [] OTHER -> ""
    IN  IF os = "" \/ arch = "" THEN "" ELSE "MFWPH_" \o os \o "-" \o arch \o ext

\* C15: check_app_update computes the target asset name MFWPH_<os>-<arch>.<ext>
\* with os/ext windows/zip, linux/tar.gz, macos/tar.gz for the hosts Windows,
\* Linux, Darwin and arch x64 for amd64 or x86_64, arm64 for arm64 or aarch64;
\* for any other operating system or architecture it starts no UpdateChecker,
\* reports the check as failed and leaves the check button enabled.
C15_TargetAsset ==
    [][(/\ op' = "check_app_update"
        /\ ~IsRunning(settings_page.update_checker_thread)
        /\ ~IsRunning(settings_page.download_thread)) =>
          IF ClaimedAsset # ""
          THEN /\ settings_page'.target_asset_name = ClaimedAsset
               /\ settings_page'.update_checker_thread = "running"
          ELSE /\ settings_page'.update_checker_thread = settings_page.update_checker_thread
               /\ settings_page'.notice = "check_failed"
               /\ settings_page'.check_button]_vars

\* Linux on arm64: the checker runs for MFWPH_linux-arm64.tar.gz
C15_Witness ==
    /\ op = "check_app_update"
    /\ host = [system |-> "Linux", machine |-> "aarch64"]
    /\ settings_page.update_checker_thread = "running"
    /\ settings_page.target_asset_name = "MFWPH_linux-arm64.tar.gz"

\* Windows on AMD64
C15_WitnessWindows ==
    /\ op = "check_app_update"
    /\ host = [system |-> "Windows", machine |-> "AMD64"]
    /\ settings_page.target_asset_name = "MFWPH_windows-x64.zip"

\* a 32-bit host: no checker, the check has failed, the button is enabled
C15_WitnessUnsupported ==
    /\ op = "check_app_update"
    /\ host.machine = "i386"
    /\ settings_page.update_checker_thread = "none"
    /\ settings_page.notice = "check_failed"
    /\ settings_page.check_button

(***************************************************************************)
(* Cleaning of folders.                                                    *)
(***************************************************************************)
\* every file that can be deleted is gone after _clean_directory
DeletableFilesRemoved ==
    /\ \A n \in DOMAIN folder.files :
          folder.files[n] => n \notin DOMAIN folder'.files
    /\ \A d \in DOMAIN folder.dirs : \A n \in DOMAIN folder.dirs[d].files :
          folder.dirs[d].files[n] =>
              (d \notin DOMAIN folder'.dirs \/ n \notin DOMAIN folder'.dirs[d].files)

\* every stale _MEI directory that can be deleted is gone, the one in use stays
StaleTempsRemoved ==
    /\ \A n \in DOMAIN temp_dir.items :
          (/\ StartsWithMEI(n) /\ n # CurrentMEI
           /\ temp_dir.items[n].is_dir /\ temp_dir.items[n].deletable)
              => n \notin DOMAIN temp_dir'.items
    /\ CurrentMEI \in DOMAIN temp_dir'.items

\* C16: _clean_directory and clean_up_old_pyinstaller_temps continue past every
\* entry they cannot delete: every deletable file (every stale temp directory
\* other than the one in use) is removed even when other entries fail, no
\* failure propagates to the caller, and _clean_directory reports that content
\* was removed whenever at least one entry was deleted.
C16_CleanupContinues ==
    [][/\ op' = "_confirm_and_clear_folder" =>
             /\ DeletableFilesRemoved
             /\ ~returned'.raised
             /\ folder' # folder => returned'.removed_any
       /\ (/\ op' = "clean_up_old_pyinstaller_temps"
           /\ temp_dir.frozen /\ temp_dir.listable) =>
             /\ StaleTempsRemoved
             /\ ~returned'.raised]_vars

\* the part of C16 that does not speak of the report
C16_DeletableRemoved ==
    [][/\ op' = "_confirm_and_clear_folder" =>
             DeletableFilesRemoved /\ ~returned'.raised
       /\ (/\ op' = "clean_up_old_pyinstaller_temps"
           /\ temp_dir.frozen /\ temp_dir.listable) =>
             StaleTempsRemoved /\ ~returned'.raised]_vars

\* the report of _clean_directory: true exactly when a file was deleted
C16_ReportsDeletedFiles ==
    [][op' = "_confirm_and_clear_folder" =>
          (returned'.removed_any <=>
              \/ \E n \in DOMAIN folder.files : folder.files[n]
              \/ \E d \in DOMAIN folder.dirs : \E n \in DOMAIN folder.dirs[d].files :
                    folder.dirs[d].files[n])]_vars

\* one file of two cannot be deleted: the other one is gone, the report is true
C16_OneUndeletable ==
    /\ op = "_confirm_and_clear_folder"
    /\ DOMAIN folder.files = {"b.log"}
    /\ ~folder.files["b.log"]
    /\ returned.removed_any


\* C17: no worker thread (GitInstallerThread, LogExportWorker) calls an
\* interface service or reads or writes interface-owned state itself: every
\* such access happens on the interface thread, caused by the user or by a
\* signal a worker emitted.
C17_WorkersOnlySignal ==
    /\ ui_effect.thread \in {"", "interface"}
    /\ ui_effect.cause \in {"", "user", "install_succeeded", "install_failed",
                            "progress", "finished", "error"}

\* C17, the part that holds: the LogExportWorker acts on the interface only
\* through its signals.
C17_LogExportOnlySignals == ui_effect.thread # "LogExportWorker"

\* C17: the GitInstallerThread, finding no git, shows the notification itself
C17_DirectCall ==
    /\ op = "GitInstallerThread.run"
    /\ ui_effect = Effect("notification_manager.show_info", "GitInstallerThread",
                          "direct call")


SettingChangeHandlers ==
    {"_on_source_changed", "_on_channel_changed", "_on_auto_download_changed"}

EntryWritten ==
    /\ Has(config'.resource_update_methods, resource')
    /\ \E iv_cdk \in Ivs, iv_token \in Ivs : doc' = ToDict(config', iv_cdk, iv_token)

CheckStarted ==
    InFlight(workers', "check", resource') = InFlight(workers, "check", resource') + 1

\* C18: every change of a resource's update source, channel or auto-download
\* checkbox writes the resource's ResourceUpdateConfig entry, saves the
\* configuration and starts a new update check for that resource, also when
\* a check for that resource is in flight at the moment of the change.
C18_ChangeRechecks ==
    [][(op' \in SettingChangeHandlers /\ config' # config)
          => (EntryWritten /\ CheckStarted)]_vars

\* C18, the part that holds: every change writes the entry and saves, and a
\* change of the source or the channel made while no check of the resource is
\* registered starts one.
C18_RecheckWhenIdle ==
    [][(op' \in SettingChangeHandlers /\ config' # config)
          => /\ EntryWritten
             /\ (op' # "_on_auto_download_changed" /\ resource' \notin active_checkers)
                   => CheckStarted]_vars

\* C18: a source or channel was changed while a check of the resource was in
\* flight, and that check is still the only one
C18_RecheckDropped ==
    /\ op \in {"_on_source_changed", "_on_channel_changed"}
    /\ Has(config.resource_update_methods, resource)
    /\ resource \in active_checkers
    /\ InFlight(workers, "check", resource) = 1
    /\ \E force \in BOOLEAN : BagIn(Worker("check", resource, "running", force), workers)


\* every record of the configuration has the declared fields of its type only
DeclaredFieldsOnly(c) ==
    /\ \A i \in 1..Len(c.devices) :
          /\ DOMAIN c.devices[i].controller_config
                \in {DOMAIN AdbDeviceDefaults, DOMAIN Win32DeviceDefaults}
          /\ \A j \in 1..Len(c.devices[i].resources) :
                DOMAIN c.devices[i].resources[j] = DOMAIN ResourceDefaults
    /\ \A i \in 1..Len(c.schedule_tasks) :
          DOMAIN c.schedule_tasks[i] = DOMAIN ScheduleTaskDefaults("")
    /\ \A i \in 1..Len(c.resource_settings) :
          \A j \in 1..Len(c.resource_settings[i].task_instances) :
             LET instance == c.resource_settings[i].task_instances[j].val
             IN  /\ DOMAIN instance = TaskInstanceFields
                 /\ \A k \in 1..Len(instance.options) :
                       DOMAIN instance.options[k] = OptionConfigFields

\* C19: from_dict, add_or_update_resource_setting and add_or_update_schedule_task
\* accept records with undeclared keys for every record type they build
\* (device, controller config, attached resource, schedule task, task
\* instance, option): no error is raised for an input that has its required
\* keys, and the records built carry declared fields only.
C19_ExtraKeysDropped ==
    /\ DeclaredFieldsOnly(config)
    /\ op = "from_dict" => returned = <<"AppConfig">>
    /\ op = "add_or_update_resource_setting" => returned = <<"None">>
    /\ (op = "add_or_update_schedule_task" /\ IsDict(arg)
           /\ ScheduleTaskRequired \subseteq DOMAIN arg.value)
          => returned = <<"None">>

\* C19, the part that holds: an error is raised only by ResourceSettings.from_dict
\* (task instances and options of the current format) or for a schedule task
\* without device_name or resource_name; devices, controller configs, attached
\* resources, schedule tasks and the options of the legacy format lose their
\* undeclared keys silently.
C19_FilteredTypesAccept ==
    /\ DeclaredFieldsOnly(config)
    /\ returned = <<"TypeError">> =>
          \/ /\ op = "from_dict"
             /\ \E i \in 1..Len(Get(doc, "resource_settings", <<>>)) :
                   /\ ~IsLegacy(DocVersion(doc), doc.resource_settings[i])
                   /\ ResourceSettingsFromDictRaises(doc.resource_settings[i])
          \/ /\ op = "add_or_update_resource_setting"
             /\ ResourceSettingsFromDictRaises(arg.value)
          \/ /\ op = "add_or_update_schedule_task"
             /\ ~(ScheduleTaskRequired \subseteq DOMAIN arg.value)

\* C19: a setting whose task instance carries the undeclared key comment is
\* handed to add_or_update_resource_setting, which raises
C19_TaskInstanceRejected ==
    /\ op = "add_or_update_resource_setting"
    /\ arg = Dict([name |-> "s1", resource_name |-> "r1",
                   task_instances |-> <<InstanceWithExtraKey>>])
    /\ returned = <<"TypeError">>

\* C19: a schedule task with the undeclared key position was accepted
C19_ScheduleTaskAccepted ==
    /\ op = "add_or_update_schedule_task"
    /\ IsDict(arg) /\ Has(arg.value, "position")
    /\ returned = <<"None">>
    /\ \E i \in 1..Len(config.schedule_tasks) : config.schedule_tasks[i].schedule_id = "sch-2"


SettingKey(s) == <<s.resource_name, s.name>>

\* the resource settings have pairwise distinct (resource_name, name) and the
\* schedule tasks pairwise distinct schedule_id
UniqueKeys(c) ==
    /\ \A i, j \in 1..Len(c.resource_settings) :
          SettingKey(c.resource_settings[i]) = SettingKey(c.resource_settings[j]) => i = j
    /\ \A i, j \in 1..Len(c.schedule_tasks) :
          c.schedule_tasks[i].schedule_id = c.schedule_tasks[j].schedule_id => i = j

ScheduleKey(t) == t.schedule_id

\* new is old with the entry at one position replaced by one of the same key
ReplacedOne(old, new, Key(_)) ==
    /\ Len(new) = Len(old)
    /\ \E i \in 1..Len(old) :
          /\ Key(new[i]) = Key(old[i])
          /\ \A j \in 1..Len(old) : j # i => new[j] = old[j]

\* new is old with one entry appended, whose key no entry of old has
AppendedOne(old, new, Key(_)) ==
    /\ Len(new) = Len(old) + 1
    /\ SubSeq(new, 1, Len(old)) = old
    /\ \A i \in 1..Len(old) : Key(old[i]) # Key(new[Len(new)])

UpsertCalls == {"add_or_update_resource_setting", "add_or_update_schedule_task"}

\* the list the call is about, before and after, has one entry replaced in
\* place or one entry appended, and the rest of the configuration is as before
ReplacedOrAppended ==
    IF op' = "add_or_update_resource_setting"
    THEN /\ \/ ReplacedOne(config.resource_settings, config'.resource_settings, SettingKey)
            \/ AppendedOne(config.resource_settings, config'.resource_settings, SettingKey)
         /\ config' = [config EXCEPT !.resource_settings = config'.resource_settings]
    ELSE /\ \/ ReplacedOne(config.schedule_tasks, config'.schedule_tasks, ScheduleKey)
            \/ AppendedOne(config.schedule_tasks, config'.schedule_tasks, ScheduleKey)
         /\ config' = [config EXCEPT !.schedule_tasks = config'.schedule_tasks]

\* the argument is a dictionary from which the record is built and kept: the
\* construction does not raise, and a setting has a resource_name and a name
Storable ==
    /\ IsDict(arg')
    /\ returned' = <<"None">>
    /\ op' = "add_or_update_resource_setting" =>
          /\ Get(arg'.value, "name", "") # ""
          /\ Get(arg'.value, "resource_name", "") # ""

\* C20 as stated: from unique keys, every call of add_or_update_resource_setting
\* or add_or_update_schedule_task keeps the keys unique, and replaces one entry
\* in place or appends exactly one, unless its argument is no dictionary, and
\* then it changes nothing.
C20_EveryCallUpserts ==
    [][(op' \in UpsertCalls /\ UniqueKeys(config)) =>
          /\ UniqueKeys(config')
          /\ IF IsDict(arg') THEN ReplacedOrAppended ELSE config' = config]_vars

\* C20, amended: from unique keys, every call keeps the keys unique; a call
\* whose dictionary is built into a record and kept replaces the entry with
\* the same key at its position or appends exactly one entry and leaves all
\* else unchanged; any other call (no dictionary, a setting without name or
\* resource_name, a construction that raises) changes nothing.
C20_Upsert ==
    [][(op' \in UpsertCalls /\ UniqueKeys(config)) =>
          /\ UniqueKeys(config')
          /\ IF Storable THEN ReplacedOrAppended ELSE config' = config]_vars

\* C20: an entry was replaced in the middle of a list of unique keys
C20_Witness ==
    /\ op = "add_or_update_schedule_task"
    /\ UniqueKeys(config)
    /\ Len(config.schedule_tasks) = 3
    /\ config.schedule_tasks[1].schedule_id = "sch-1"
    /\ ~config.schedule_tasks[1].enabled
    /\ Len(config.resource_settings) = 2

\* C20: a setting without a name was handed over and nothing was stored
C20_NamelessSkipped ==
    /\ op = "add_or_update_resource_setting"
    /\ IsDict(arg) /\ arg.value.name = ""
    /\ returned = <<"None">>
    /\ config.resource_settings = <<>>


(***************************************************************************)
(* Schedule task and its interface form.                                   *)
(***************************************************************************)
SameButEnabled(t, u) ==
    /\ u.schedule_type = t.schedule_type
    /\ u.schedule_time = t.schedule_time
    /\ u.notify = t.notify
    /\ u.force_stop = t.force_stop
    /\ t.schedule_id # "" => u.schedule_id = t.schedule_id

\* C21: for every ScheduleTask t of kind once, daily or weekly,
\* from_ui_format(t.to_ui_format(), t.device_name, t.resource_name) has the
\* kind, time, enabled flag, notify flag, force_stop flag and schedule_id of t,
\* and the interface form holds week_days only when t is weekly.
C21_RoundTrip ==
    /\ op = "to_ui_format" =>
          (Has(returned, "week_days") => arg.schedule_type = "weekly")
    /\ op = "from_ui_format" =>
          /\ SameButEnabled(arg, returned)
          /\ returned.enabled = arg.enabled
          /\ returned.schedule_id = arg.schedule_id

\* C21, the part that holds: kind, time, notify and force_stop come back, a
\* non-empty schedule_id comes back, and week_days is in the interface form
\* only for a weekly task.
C21_RoundTripButEnabled ==
    /\ op = "to_ui_format" =>
          (Has(returned, "week_days") => arg.schedule_type = "weekly")
    /\ op = "from_ui_format" => SameButEnabled(arg, returned)

\* C21: a disabled task came back enabled
C21_DisabledComesBackEnabled ==
    /\ op = "from_ui_format"
    /\ ~arg.enabled
    /\ arg.schedule_id = "sch-1"
    /\ returned.enabled


(***************************************************************************)
(* Closing the main window.                                                *)
(***************************************************************************)
\* call a comes before call b in the list of calls
Before(calls, a, b) ==
    \E i, j \in 1..Len(calls) : i < j /\ calls[i] = a /\ calls[j] = b

Saved ==
    /\ config'.window_size = WindowSizeString(window.size)
    /\ config'.window_position = WindowPositionString(window.pos)
    /\ \E iv_cdk \in Ivs, iv_token \in Ivs : doc' = ToDict(config', iv_cdk, iv_token)

\* C22: a close event received while minimize_to_tray_on_close is enabled
\* issues no application quit and saves nothing: the window is only hidden.
\* A close event received while it is disabled, and a tray quit action, store
\* the window size and position in AppConfig and save the configuration
\* before the application quit is issued.
C22_CloseOrHide ==
    [][/\ (op' = "closeEvent" /\ config.minimize_to_tray_on_close) =>
             /\ window'.stage = "hidden"
             /\ config' = config /\ doc' = doc
             /\ \A i \in 1..Len(applied') :
                   applied'[i] \notin {"save_all_configs", "QCoreApplication.quit"}
       /\ ((op' = "closeEvent" /\ ~config.minimize_to_tray_on_close)
              \/ op' = "force_quit") =>
             /\ Saved
             /\ window'.stage = "quit"
             /\ Before(applied', "save_all_configs", "QCoreApplication.quit")]_vars

\* C22: a resized and moved window was closed with the preference disabled
C22_Witness ==
    /\ op = "closeEvent"
    /\ ~config.minimize_to_tray_on_close
    /\ window.stage = "quit"
    /\ window.size = <<1024, 768>>
    /\ config.window_size = "1024x768"
    /\ config.window_position = "-5,-10"
    /\ doc.window_size = "1024x768"

\* C22: the window was closed with the preference enabled and is hidden
C22_WitnessHidden ==
    /\ op = "closeEvent"
    /\ config.minimize_to_tray_on_close
    /\ window.stage = "hidden"
    /\ window.size = <<1024, 768>>
    /\ config.window_size = "800x600"

\* C22: the hidden window was ended from the tray menu
C22_WitnessTrayQuit ==
    /\ op = "force_quit"
    /\ config.minimize_to_tray_on_close
    /\ window.stage = "quit"
    /\ config.window_size = "1920x600"

(***************************************************************************)
(* C23, C24, C28: selection and content area of the main window.           *)
(***************************************************************************)
\* exactly one of current_page and current_device is set, current_button_id
\* is set exactly when current_device is, and the content area holds the one
\* page of the selection
OnePageShown ==
    /\ (shell.current_page = None) # (shell.current_device = None)
    /\ (shell.current_button_id # None) <=> (shell.current_device # None)
    /\ shell.content = IF shell.current_page # None
                       THEN {<<"page", shell.current_page>>}
                       ELSE {<<"device", shell.current_device>>}

\* C23: after every call of show_page, show_device_page and
\* show_device_page_by_name exactly one of current_page and current_device is
\* set, current_button_id is set exactly when current_device is, and the
\* content area holds exactly the page of that selection; a call of
\* show_device_page_by_name with a name no sidebar button carries ends with
\* current_page = "home".
C23_Navigation ==
    /\ []OnePageShown
    /\ [][(/\ op' = "show_device_page_by_name"
           /\ ButtonsNamed(shell, arg') = <<>>)
          => /\ shell'.current_page = "home"
             /\ shell'.current_device = None]_vars

\* C23: show_device_page_by_name was called with a name without a button
\* while a device page was shown, and the home page is shown
C23_Witness ==
    /\ op = "show_device_page_by_name"
    /\ ButtonsNamed(shell, arg) = <<>>
    /\ shell.buttons # <<>>
    /\ shell.current_page = "home"
    /\ shell.content = {<<"page", "home">>}
    /\ Cardinality(shell.device_pages) > Len(shell.buttons)

\* C23: show_device_page_by_name found the second button
C23_WitnessDevice ==
    /\ op = "show_device_page_by_name"
    /\ shell.current_page = None
    /\ shell.current_device = "d2"
    /\ shell.current_button_id = "d2_1"
    /\ shell.content = {<<"device", "d2">>}

DeviceRemoved == Len(config'.devices) < Len(config.devices)

\* after the step the cached page of every removed device is dropped, the
\* buttons are those of the devices, and the first device or home is shown
NavigatedAfterDeletion ==
    LET names == DevicesOf(config')
    IN  /\ \A n \in Range(DevicesOf(config)) \ Range(names) :
               n \notin shell'.device_pages
        /\ [i \in 1..Len(shell'.buttons) |-> shell'.buttons[i].device_btn_id]
               = [i \in 1..Len(names) |-> ButtonId(names[i], i - 1)]
        /\ IF names # <<>>
           THEN /\ shell'.current_page = None
                /\ shell'.current_device = names[1]
                /\ shell'.content = {<<"device", names[1]>>}
           ELSE /\ shell'.current_page = "home"
                /\ shell'.content = {<<"page", "home">>}

C24_EditDialogNavigates ==
    [][(DeviceRemoved /\ op' = "open_settings_dialog")
       => NavigatedAfterDeletion]_vars

\* C24: the sidebar dialog rebuilds the buttons
C24_SidebarRebuilds ==
    [][(DeviceRemoved /\ op' = "open_add_device_dialog")
       => [i \in 1..Len(shell'.buttons) |-> shell'.buttons[i].toolTip]
              = DevicesOf(config')]_vars

\* C24: the device whose page is shown was removed by the sidebar dialog: its
\* page stays cached and mounted
C24_StalePage ==
    /\ op = "open_add_device_dialog"
    /\ arg = "deleted"
    /\ shell.current_page = None
    /\ shell.current_device \notin Range(DevicesOf(config))
    /\ shell.current_device \in shell.device_pages
    /\ shell.content = {<<"device", shell.current_device>>}

ShownDeviceHasButton ==
    shell.current_page = None =>
        /\ shell.current_device \in Range(DevicesOf(config))
        /\ Cardinality({i \in 1..Len(shell.buttons) :
               shell.buttons[i].device_btn_id = shell.current_button_id}) = 1

C28_KeptElsewhere ==
    [][~(op' = "open_add_device_dialog" /\ arg' = "deleted")
       => (ShownDeviceHasButton => ShownDeviceHasButton')]_vars

\* C28: d1 was removed by the sidebar dialog while the page of d2 was shown:
\* d2 is still a device, but no button carries the id d2_1
C28_StaleButtonId ==
    /\ op = "open_add_device_dialog"
    /\ DevicesOf(config) = <<"d2">>
    /\ shell.current_page = None
    /\ shell.current_device = "d2"
    /\ shell.current_button_id = "d2_1"
    /\ shell.buttons[1].device_btn_id = "d2_0"
    /\ \A i \in 1..Len(shell.buttons) : ~shell.buttons[i].checked

(***************************************************************************)
(* C25: terminal events and deletions of a run of LogExportWorker.         *)
(***************************************************************************)
TerminalEvents == SelectSeq(export_run.events, LAMBDA e : e \in {"finished", "error"})

\* C25: a run of LogExportWorker emits at most one terminal event, finished
\* or error, and exactly one by the time it returns; a source file is deleted
\* only if it was written into the archive and the archive was written
\* completely; a run that emitted error has deleted no source file; a source
\* file that cannot be removed does not make the run emit error.
C25_OneTerminalEvent ==
    /\ Len(TerminalEvents) <= 1
    /\ export_run.stage = "returned" <=> Len(TerminalEvents) = 1
    /\ export_run.deleted \subseteq Range(export_run.files_to_delete)
    /\ export_run.deleted # {} =>
          /\ export_run.archive = "complete"
          /\ export_run.files_to_delete = export_run.files_to_process
    /\ "error" \in Range(export_run.events) => export_run.deleted = {}
    /\ export_run.kept # {} => "error" \notin Range(export_run.events)
    /\ (export_run.stage = "returned" /\ export_run.kept # {})
          => TerminalEvents = <<"finished">>

\* C25: a run over two archived files, one of which could not be removed,
\* has deleted the other and emitted finished
C25_Witness ==
    /\ export_run.stage = "returned"
    /\ TerminalEvents = <<"finished">>
    /\ Len(export_run.files_to_delete) = 2
    /\ Cardinality(export_run.deleted) = 1
    /\ Cardinality(export_run.kept) = 1
    /\ export_run.archive = "complete"

\* C25: a run whose second file could not be written has emitted error and
\* deleted nothing
C25_WitnessError ==
    /\ export_run.stage = "returned"
    /\ TerminalEvents = <<"error">>
    /\ Len(export_run.files_to_delete) = 1
    /\ Len(export_run.files_to_process) = 2
    /\ export_run.archive = "broken"
    /\ export_run.deleted = {}

\* C25: a run that found only an earlier export archive in the logs
\* directory has emitted error
C25_WitnessNoFile ==
    /\ export_run.stage = "returned"
    /\ export_run.files[2].exists
    /\ export_run.files_to_process = <<>>
    /\ TerminalEvents = <<"error">>
    /\ export_run.archive = "none"

(***************************************************************************)
(* C26, C29: cancelled downloads and row indicators of the download page.  *)
(***************************************************************************)
\* the cancel button is clicked while the downloader of the selected
\* resource is running
CancelsRunningDownload ==
    /\ op' = "_cancel_download"
    /\ panel.downloaders[panel.selected] = "running"

\* C26: cancelling a running download of a resource asks its downloader to
\* cancel and sets the action bar to the state of the status that was cached
\* for the resource when the download began, whatever checks (single or
\* check-all) ran during the download.
C26_CancelReverts ==
    [][CancelsRunningDownload
       => /\ panel'.downloaders[panel.selected] = "cancelled"
          /\ panel'.bar = CancelBarOfBegan(panel, panel.selected)]_vars

\* C26: the downloader is asked to cancel and the action bar is set from the
\* status cached at the time of the click
C26_CancelShowsCached ==
    [][CancelsRunningDownload
       => /\ panel'.downloaders[panel.selected] = "cancelled"
          /\ panel'.bar = CancelBar(panel, panel.selected)
          /\ panel'.cache = panel.cache]_vars

\* C26: when the cached status is the one of the beginning of the download,
\* the action bar goes back to it
C26_RevertsWhenUntouched ==
    [][(/\ CancelsRunningDownload
        /\ panel.cache[panel.selected] = panel.began[panel.selected])
       => panel'.bar = CancelBarOfBegan(panel, panel.selected)]_vars

\* C26: the download began with the status 'available', check-all ran during
\* it, and the cancelled download left the check button
C26_CheckedDuringDownload ==
    /\ op = "_cancel_download"
    /\ panel.selected = "r1"
    /\ panel.downloaders["r1"] = "cancelled"
    /\ panel.began["r1"] = "available"
    /\ panel.cache["r1"] = "checking"
    /\ panel.batch_running
    /\ panel.bar = "reset"

\* C26: the same after a single check during the download found no update
C26_LatestDuringDownload ==
    /\ op = "_cancel_download"
    /\ panel.downloaders["r1"] = "cancelled"
    /\ panel.began["r1"] = "available"
    /\ panel.cache["r1"] = "latest"
    /\ ~panel.batch_running
    /\ panel.bar = "reset"

IndicatorMatchesCache ==
    \A n \in Range(panel.resources) :
        panel.rows[n] <=> panel.cache[n] = "available"

\* C29: after every check result, install, resource addition and reload of
\* the list, the row of a resource shows the update indicator exactly when
\* update_status_cache holds the status 'available' for the resource.
C29_IndicatorMatchesCache ==
    op \in {"update_found", "update_not_found", "check_failed",
            "_handle_batch_check_completed", "_handle_install_completed",
            "_handle_install_failed", "_handle_add_succeeded"}
        => IndicatorMatchesCache

\* C29: a found update shows the indicator and caches 'available'; a check
\* without update hides the indicator and caches 'latest'
C29_ResultSetsRow ==
    [][/\ (op' = "update_found" /\ arg' \in Range(panel.resources))
          => (panel'.rows[arg'] /\ panel'.cache[arg'] = "available")
       /\ (op' = "update_not_found" /\ arg' \in Range(panel.resources))
          => (~panel'.rows[arg'] /\ panel'.cache[arg'] = "latest")]_vars

\* C29: a check of a resource with the indicator shown failed: the status is
\* 'error' and the indicator is still shown
C29_IndicatorAfterFailure ==
    /\ op = "check_failed"
    /\ panel.cache["r1"] = "error"
    /\ panel.rows["r1"]

\* C29: a resource was added while r1 had an update: the list was rebuilt,
\* the status is 'available' and the indicator is hidden
C29_IndicatorLostOnReload ==
    /\ op = "_handle_add_succeeded"
    /\ panel.resources = <<"r1", "r2">>
    /\ panel.cache["r1"] = "available"
    /\ ~panel.rows["r1"]

(***************************************************************************)
(* C27: the startup flag is reset when every worker reports.               *)
(***************************************************************************)
RestartScheduled == ui_effect.cause = "restart_required"

\* C27: when every check, download and install that was started reports a
\* terminal event, startup_update_in_progress, once set by
\* check_for_updates, is eventually reset, for every combination of found
\* updates, auto-download preferences, missing resource records, failed
\* downloads, failed installs and installs that report restart_required only.
C27_FlagReset == startup_update_in_progress ~> ~startup_update_in_progress

\* C27: the flag is reset unless an install reported restart_required only
C27_FlagResetOrRestart ==
    startup_update_in_progress ~> (~startup_update_in_progress \/ RestartScheduled)

\* C27: the flag was reset after a failed install of the last queued update
C27_ResetAfterFailure ==
    /\ op = "_handle_install_failed"
    /\ Len(started) = 2
    /\ ~startup_update_in_progress
    /\ update_checker_thread.stage = "completed"

\* C27: an install reported restart_required only; nothing is running, the
\* update is still the current one and the flag is set
C27_StuckAfterRestartRequired ==
    /\ RestartScheduled
    /\ startup_update_in_progress
    /\ current_auto_update # NoUpdate
    /\ auto_workers = EmptyBag
    /\ update_checker_thread.stage = "completed"

\* ---------------------------------------------------------------------
\* C30

CallsAt(call, entry) ==
    {i \in 1..Len(combat.calls) :
        combat.calls[i].call = call /\ combat.calls[i].entry = entry}

ReturnWaitsAt ==
    {i \in 1..Len(combat.calls) :
        /\ combat.calls[i].call = "sleep"
        /\ combat.calls[i].ms = ReturnWait(combat.return_time)}

MarchRecognisedBefore(i) ==
    \E j \in CallsAt("run_recognition", MarchingEntry) : j < i /\ combat.calls[j].hit

MusterMissed ==
    /\ combat # <<>>
    /\ combat.pc # "muster_check"
    /\ \E i \in CallsAt("run_recognition", MusteringEntry) : ~combat.calls[i].hit

RetreatOnlyAfterMarchRecognised ==
    \A i \in CallsAt("run_task", RetreatEntry) : MarchRecognisedBefore(i)

WaitOnlyAfterRetreat ==
    \A i \in 1..Len(combat.calls) :
        (combat.calls[i].call = "sleep" /\ combat.calls[i].ms \notin {500, 1000})
        => /\ i \in ReturnWaitsAt
           /\ \E j \in CallsAt("run_task", RetreatEntry) : j < i

ReentryOnlyAfterWait ==
    \A i \in CallsAt("run_task", MusterEntry) :
        /\ \E j \in ReturnWaitsAt : j < i
        /\ combat.calls[i].override = <<combat.param>>

NotFoundReturnsAtOnce ==
    MusterMissed
    => /\ combat.pc = "done"
       /\ combat.result = "true"
       /\ CallsAt("post_click", "") = {}
       /\ CallsAt("run_task", RetreatEntry) = {}
       /\ CallsAt("run_task", MusterEntry) = {}
       /\ \A i \in CallsAt("sleep", "") : combat.calls[i].ms = 500

\* C30: in BeginCombat the retreat task is triggered only after the marching
\* marker has been recognised, the wait of 2*return_time + 2 seconds comes
\* after the retreat, the entry task is re-invoked only after that wait with
\* the monster kind the action received, and a run whose mustering marker is
\* not found returns success without clicking, retreating, waiting or
\* re-invoking the entry task.
C30_OrderAndForwarding ==
    combat # <<>>
    => /\ RetreatOnlyAfterMarchRecognised
       /\ WaitOnlyAfterRetreat
       /\ ReentryOnlyAfterWait
       /\ NotFoundReturnsAtOnce

\* C30, the part of the order that holds: the retreat follows a marching
\* recognition that handed back a result, the wait follows the retreat, the
\* entry task follows the wait with the received monster kind, and a missed
\* mustering marker ends the run with success at once.
C30_OrderAfterAnyResult ==
    combat # <<>>
    => /\ \A i \in CallsAt("run_task", RetreatEntry) :
            /\ ~combat.detail.is_none
            /\ \E j \in CallsAt("run_recognition", MarchingEntry) : j < i
       /\ WaitOnlyAfterRetreat
       /\ ReentryOnlyAfterWait
       /\ NotFoundReturnsAtOnce

\* C30: a finished run that retreated, waited and re-entered although no
\* marching recognition had a hit
C30_RetreatWithoutMarker ==
    /\ combat # <<>>
    /\ combat.result = "true"
    /\ CallsAt("run_task", MusterEntry) # {}
    /\ ~RetreatOnlyAfterMarchRecognised

\* C30: a finished run that found the marching marker after one empty poll
C30_FullRound ==
    /\ combat # <<>>
    /\ combat.result = "true"
    /\ combat.polls = 2
    /\ combat.param = [present |-> TRUE, value |-> 1]
    /\ combat.return_time = 65
    /\ CallsAt("run_task", MusterEntry) # {}
    /\ RetreatOnlyAfterMarchRecognised

\* C30: a run that ended with success because the mustering marker was missed
C30_MusterMissed ==
    MusterMissed /\ combat.result = "true"

====
